---- MODULE Spec2Model ----
(***************************************************************************)
(* Call-graph extraction of the Move function analyzer                     *)
(* (src/beta-2024/src/function_analyzer.rs).                               *)
(*                                                                         *)
(* One run of the model is one call of CallAnalyzer::analyze_calls on a    *)
(* function of a loaded project.  The recursive descent of                 *)
(* extract_calls_from_expression is unfolded into steps: `stack` holds the *)
(* expressions (and the pending method-call resolutions) still to be       *)
(* processed, in the order the recursion processes them.                   *)
(*                                                                         *)
(* Strings are TLA+ strings; formatting is string concatenation.           *)
(***************************************************************************)
EXTENDS Integers, Sequences, FiniteSets, TLC

VARIABLES project, module_info, function, stack, calls, visited_calls, pc,
          requested_name, file_system, function_defs, def_index,
          analysis_results, partial_errors, result,
          call, outcome, host

\* the state of FunctionAnalyzer::analyze_function around the call analysis
analyzer == <<requested_name, file_system, function_defs, def_index,
              analysis_results, partial_errors, result>>

\* one call of a single operation with its outcome, and the host
\* application's bookkeeping over two call-graph extractions
harness == <<call, outcome, host>>

vars == <<project, module_info, function, stack, calls, visited_calls, pc,
          analyzer, harness>>

(***************************************************************************)
(* Strings and sequences                                                   *)
(***************************************************************************)

\* str::starts_with
starts_with(s, prefix) ==
    /\ Len(s) >= Len(prefix)
    /\ SubSeq(s, 1, Len(prefix)) = prefix

RECURSIVE join(_, _)
\* [String]::join(sep)
join(strings, sep) ==
    IF strings = <<>> THEN ""
    ELSE IF Len(strings) = 1 THEN strings[1]
    ELSE strings[1] \o sep \o join(Tail(strings), sep)

RECURSIVE Flatten(_)
\* concatenation of a sequence of sequences
Flatten(seqs) ==
    IF seqs = <<>> THEN <<>> ELSE Head(seqs) \o Flatten(Tail(seqs))

Range(s) == {s[i] : i \in 1..Len(s)}

(***************************************************************************)
(* The parser's syntax tree (move_compiler::parser::ast), as records       *)
(***************************************************************************)

\* Option::None of an expression, of a call record, of a module
NoExp == [kind |-> "None"]
None == [kind |-> "None"]

\* PathEntry { name, tyargs, is_macro }
PathEntry(name, tyargs) == [name |-> name, tyargs |-> tyargs]
NoTyArgs == [some |-> FALSE, value |-> <<>>]
TyArgs(types) == [some |-> TRUE, value |-> types]
Entry(name) == PathEntry(name, NoTyArgs)

\* LeadingNameAccess_
LeadingName(name) == [kind |-> "Name", name |-> name]
AnonymousAddress(bytes) == [kind |-> "AnonymousAddress", name |-> bytes]
GlobalAddress(name) == [kind |-> "GlobalAddress", name |-> name]

\* NameAccessChain_
Single(path_entry) == [kind |-> "Single", path_entry |-> path_entry]
Path(root, entries) == [kind |-> "Path", root |-> root, entries |-> entries]

\* Type_
TUnit == [kind |-> "Unit"]
TApply(name_access_chain) == [kind |-> "Apply", chain |-> name_access_chain]
TRef(is_mut, inner) == [kind |-> "Ref", is_mut |-> is_mut, inner |-> inner]
TFun(params, ret) == [kind |-> "Fun", params |-> params, ret |-> ret]
TMultiple(types) == [kind |-> "Multiple", types |-> types]
TUnresolvedError == [kind |-> "UnresolvedError"]

\* Exp_
Value(v) == [kind |-> "Value", value |-> v]
Name(chain) == [kind |-> "Name", name_chain |-> chain]
Unit == [kind |-> "Unit"]
Call(chain, args) == [kind |-> "Call", name_chain |-> chain, args |-> args]
DotCall(receiver, method_name, args) ==
    [kind |-> "DotCall", receiver |-> receiver, method_name |-> method_name,
     args |-> args]
BinopExp(left, right) == [kind |-> "BinopExp", left |-> left, right |-> right]
IfElse(condition, then_exp, else_exp) ==
    [kind |-> "IfElse", condition |-> condition, then_exp |-> then_exp,
     else_exp |-> else_exp]
While(condition, body) == [kind |-> "While", condition |-> condition, body |-> body]
Block(sequence) == [kind |-> "Block", sequence |-> sequence]
Assign(lhs, rhs) == [kind |-> "Assign", lhs |-> lhs, rhs |-> rhs]
Vector(elements) == [kind |-> "Vector", elements |-> elements]
Pack(chain, fields) == [kind |-> "Pack", name_chain |-> chain, fields |-> fields]
Index(base, indices) == [kind |-> "Index", base |-> base, indices |-> indices]
ExpList(expressions) == [kind |-> "ExpList", expressions |-> expressions]
Quant(body) == [kind |-> "Quant", body |-> body]
SpecBlock(body) == [kind |-> "Spec", body |-> body]
Match(match_exp, arms) == [kind |-> "Match", match_exp |-> match_exp, arms |-> arms]
MatchArm(guard, rhs) == [guard |-> guard, rhs |-> rhs]
Continue == [kind |-> "Continue"]
UnresolvedError == [kind |-> "UnresolvedError"]
\* the variants with one boxed (or optional) operand and no other expression:
\* Dot, UnaryExp, Loop, Borrow, Dereference, Cast, Annotate, Abort, Move, Copy,
\* Labeled, Lambda, Parens, Return, Break, DotUnresolved
OneOperandKinds ==
    {"Dot", "UnaryExp", "Loop", "Borrow", "Dereference", "Cast", "Annotate",
     "Abort", "Move", "Copy", "Labeled", "Lambda", "Parens", "Return", "Break",
     "DotUnresolved"}
Exp1(kind, exp) == [kind |-> kind, exp |-> exp]

\* SequenceItem_ and Sequence
Seq_(exp) == [kind |-> "Seq", exp |-> exp]
Declare == [kind |-> "Declare", exp |-> NoExp]
Bind(exp) == [kind |-> "Bind", exp |-> exp]
Sequence(items, final) == [items |-> items, final |-> final]

\* FunctionBody_
Defined(sequence) == [kind |-> "Defined", sequence |-> sequence]
Native == [kind |-> "Native"]

\* Function { name, signature { parameters, return_type }, body }
Param(name, type) == [name |-> name, type |-> type]
Function(name, parameters, return_type, body) ==
    [name |-> name,
     signature |-> [parameters |-> parameters, return_type |-> return_type],
     body |-> body]

\* ModuleMember, ModuleDefinition, Definition
MemberFunction(f) == [kind |-> "Function", function |-> f]
MemberStruct(name) == [kind |-> "Struct", name |-> name]
ModuleDefinition(name, members) == [kind |-> "Module", name |-> name, members |-> members]
AddressDefinition(modules) == [kind |-> "Address", modules |-> modules]

\* one entry of SourceDefs.sources / SourceDefs.tests: a parsed file
File(file_path, definitions) == [file_path |-> file_path, definitions |-> definitions]
\* SourceDefs { sources, tests }: one package of Project.modules
SourceDefs(sources, tests) == [sources |-> sources, tests |-> tests]

\* ModuleInfo { address, name, file_path }
ModuleInfo(name, file_path) == [name |-> name, file_path |-> file_path]

\* FunctionCall { file, function, module }
FunctionCall(file, fn, module) ==
    [kind |-> "Some", file |-> file, function |-> fn, module |-> module]

(***************************************************************************)
(* TypeResolver: rendering of type nodes                                   *)
(***************************************************************************)

HexDigits == "0123456789abcdef"
HexDigit(d) == SubSeq(HexDigits, d + 1, d + 1)

RECURSIVE hex_encode(_)
\* hex::encode: two lowercase digits per byte
hex_encode(bytes) ==
    IF bytes = <<>> THEN ""
    ELSE HexDigit(Head(bytes) \div 16) \o HexDigit(Head(bytes) % 16)
             \o hex_encode(Tail(bytes))

is_basic_move_type(name) ==
    name \in {"u8", "u16", "u32", "u64", "u128", "u256",
              "bool", "address", "signer", "vector"}

format_unit_type == "()"

format_unresolved_error == "UnresolvedError"

format_path_name_access(name_path) ==
    CASE name_path.root.kind = "Name" -> name_path.root.name
      [] name_path.root.kind = "GlobalAddress" -> "@" \o name_path.root.name
      [] name_path.root.kind = "AnonymousAddress" ->
             "0x" \o hex_encode(name_path.root.name)

RECURSIVE type_to_string(_)
RECURSIVE types_to_strings(_)

\* types.iter().map(|t| self.type_to_string(t)).collect()
types_to_strings(types) ==
    IF types = <<>> THEN <<>>
    ELSE <<type_to_string(Head(types))>> \o types_to_strings(Tail(types))

format_single_name_entry(path_entry) ==
    IF is_basic_move_type(path_entry.name) THEN path_entry.name
    ELSE IF path_entry.tyargs.some
         THEN path_entry.name \o "<"
                  \o join(types_to_strings(path_entry.tyargs.value), ", ") \o ">"
         ELSE path_entry.name

name_access_chain_to_string(name_access_chain) ==
    IF name_access_chain.kind = "Single"
    THEN format_single_name_entry(name_access_chain.path_entry)
    ELSE format_path_name_access(name_access_chain)

format_apply_type(name_access_chain) ==
    name_access_chain_to_string(name_access_chain)

format_reference_type(is_mut, inner_type) ==
    "&" \o (IF is_mut THEN "mut " ELSE "") \o type_to_string(inner_type)

format_function_type(params, return_type) ==
    "|" \o join(types_to_strings(params), ", ") \o "| -> "
        \o type_to_string(return_type)

format_multiple_type(types) ==
    "(" \o join(types_to_strings(types), ", ") \o ")"

type_to_string(type_) ==
    CASE type_.kind = "Unit" -> format_unit_type
      [] type_.kind = "Apply" -> format_apply_type(type_.chain)
      [] type_.kind = "Ref" -> format_reference_type(type_.is_mut, type_.inner)
      [] type_.kind = "Fun" -> format_function_type(type_.params, type_.ret)
      [] type_.kind = "Multiple" -> format_multiple_type(type_.types)
      [] type_.kind = "UnresolvedError" -> format_unresolved_error

(***************************************************************************)
(* CallAnalyzer: the name filters                                          *)
(***************************************************************************)

is_builtin_function(function_name) ==
    function_name \in {"assert", "assert!",
                       "move_to", "move_from", "borrow_global", "borrow_global_mut",
                       "exists", "freeze", "copy", "move",
                       "abort", "return"}

is_member_method_pattern(function_name) ==
    \/ starts_with(function_name, "get_")
    \/ starts_with(function_name, "is_")
    \/ starts_with(function_name, "has_")
    \/ function_name \in {"is_null", "is_empty", "length", "size", "capacity",
                          "borrow", "borrow_mut", "value", "inner",
                          "price", "timestamp", "expire_timestamp", "amount",
                          "balance",
                          "destroy", "extract", "split", "join", "merge"}

\* seeded fault: the standard-library list without "table"
is_std_module_without_table(module_name) ==
    module_name \in {"vector", "option", "string", "ascii", "type_name",
                     "bcs", "hash", "debug", "signer", "error",
                     "fixed_point32", "bit_vector", "bag",
                     "object_table", "linked_table", "priority_queue"}

is_std_module(module_name) ==
    module_name \in {"vector", "option", "string", "ascii", "type_name",
                     "bcs", "hash", "debug", "signer", "error",
                     "fixed_point32", "bit_vector", "table", "bag",
                     "object_table", "linked_table", "priority_queue"}

should_include_in_call_graph(function_name, module_name) ==
    /\ ~is_builtin_function(function_name)
    /\ ~is_std_module(module_name)
    /\ ~is_member_method_pattern(function_name)

(***************************************************************************)
(* CallAnalyzer: lookups over the project                                  *)
(*                                                                         *)
(* project is Project.modules: the packages in iteration order, each with  *)
(* its regular sources and its test sources, each a list of parsed files.  *)
(***************************************************************************)

\* the top-level modules of one parsed file, each with the file's path
\* (`if let Definition::Module(module_def) = definition`)
ModulesInFile(file) ==
    LET mods == SelectSeq(file.definitions, LAMBDA d : d.kind = "Module")
    IN  [i \in 1..Len(mods) |->
            [module_def |-> mods[i], file_path |-> file.file_path]]

ModulesInFiles(files) ==
    Flatten([i \in 1..Len(files) |-> ModulesInFile(files[i])])

\* `for (_, source_defs) in &self.project.modules`: per package (in the
\* order the map yields them), sources, then tests
AllModules ==
    Flatten([i \in 1..Len(project) |->
                ModulesInFiles(project[i].sources)
                    \o ModulesInFiles(project[i].tests)])

\* the same loop over `source_defs.sources` alone
SourceModules ==
    Flatten([i \in 1..Len(project) |-> ModulesInFiles(project[i].sources)])

\* `if let ModuleMember::Function(function) = member`, in member order
FunctionsOf(module_def) ==
    LET ms == SelectSeq(module_def.members, LAMBDA m : m.kind = "Function")
    IN  [i \in 1..Len(ms) |-> ms[i].function]

find_module_definition(info) ==
    LET found == SelectSeq(AllModules,
                     LAMBDA m : /\ m.file_path = info.file_path
                                /\ m.module_def.name = info.name)
    IN  IF found = <<>> THEN None ELSE found[1].module_def

find_module_by_name(module_name) ==
    LET found == SelectSeq(AllModules, LAMBDA m : m.module_def.name = module_name)
    IN  IF found = <<>> THEN None ELSE found[1]

generate_function_signature(f) ==
    LET params == [i \in 1..Len(f.signature.parameters) |->
                      f.signature.parameters[i].name \o ": "
                          \o type_to_string(f.signature.parameters[i].type)]
    IN  f.name \o "(" \o join(params, ", ") \o ")" \o ": "
            \o type_to_string(f.signature.return_type)

RECURSIVE type_references_struct(_, _)
type_references_struct(type_, struct_name) ==
    CASE type_.kind = "Apply" ->
             IF type_.chain.kind = "Single"
             THEN type_.chain.path_entry.name = struct_name
             ELSE \/ /\ type_.chain.root.kind = "Name"
                     /\ type_.chain.root.name = struct_name
                  \/ \E i \in 1..Len(type_.chain.entries) :
                         type_.chain.entries[i].name = struct_name
      [] type_.kind = "Ref" -> type_references_struct(type_.inner, struct_name)
      [] type_.kind = "Multiple" ->
             \E i \in 1..Len(type_.types) :
                 type_references_struct(type_.types[i], struct_name)
      [] OTHER -> FALSE

function_operates_on_struct(f, struct_name) ==
    \/ \E i \in 1..Len(f.signature.parameters) :
           type_references_struct(f.signature.parameters[i].type, struct_name)
    \/ type_references_struct(f.signature.return_type, struct_name)

(***************************************************************************)
(* CallAnalyzer: resolution of a call target                               *)
(***************************************************************************)

resolve_local_function_call(function_name, current_module) ==
    LET module_def == find_module_definition(current_module)
        fs == IF module_def = None THEN <<>>
              ELSE SelectSeq(FunctionsOf(module_def),
                             LAMBDA f : f.name = function_name)
    IN  IF fs = <<>> THEN None
        ELSE FunctionCall(current_module.file_path,
                          generate_function_signature(fs[1]),
                          current_module.name)

resolve_imported_function_call(function_name, current_module) == None

\* seeded fault: the record takes the calling module's file path
resolve_module_function_call_misfiled(module_name, function_name, current_module) ==
    LET found == find_module_by_name(module_name)
        fs == IF found = None THEN <<>>
              ELSE SelectSeq(FunctionsOf(found.module_def),
                             LAMBDA f : f.name = function_name)
    IN  IF fs = <<>> THEN None
        ELSE FunctionCall(current_module.file_path,
                          generate_function_signature(fs[1]),
                          module_name)

resolve_module_function_call(module_name, function_name, current_module) ==
    LET found == find_module_by_name(module_name)
        fs == IF found = None THEN <<>>
              ELSE SelectSeq(FunctionsOf(found.module_def),
                             LAMBDA f : f.name = function_name)
    IN  IF fs = <<>> THEN None
        ELSE FunctionCall(found.file_path,
                          generate_function_signature(fs[1]),
                          module_name)

\* the functions of module_def named method_name that operate on struct_name
StructMethods(module_def, struct_name, method_name) ==
    SelectSeq(FunctionsOf(module_def),
              LAMBDA f : /\ f.name = method_name
                         /\ function_operates_on_struct(f, struct_name))

resolve_struct_method_call(struct_name, method_name, current_module) ==
    LET module_def == find_module_definition(current_module)
        here == IF module_def = None THEN <<>>
                ELSE StructMethods(module_def, struct_name, method_name)
        others == SelectSeq(SourceModules,
                      LAMBDA m :
                          /\ m.module_def.name # current_module.name
                          /\ StructMethods(m.module_def, struct_name,
                                           method_name) # <<>>)
    IN  IF here # <<>>
        THEN FunctionCall(current_module.file_path,
                          generate_function_signature(here[1]),
                          current_module.name)
        ELSE IF others # <<>>
        THEN FunctionCall(others[1].file_path,
                          generate_function_signature(
                              StructMethods(others[1].module_def, struct_name,
                                            method_name)[1]),
                          others[1].module_def.name)
        ELSE None

resolve_external_function_call(address, module_name, function_name) ==
    FunctionCall("<external:" \o address \o ">",
                 function_name \o "(...)",
                 module_name)

\* `if let Some(call_info) = ... { if self.should_include_in_call_graph(..) {
\*  return Some(call_info) } }`: the candidate is kept when it passes the filter
Included(function_name, call_info) ==
    /\ call_info # None
    /\ should_include_in_call_graph(function_name, call_info.module)

resolve_single_name(function_name, current_module) ==
    LET local == resolve_local_function_call(function_name, current_module)
        imported == resolve_imported_function_call(function_name, current_module)
    IN  IF is_builtin_function(function_name) THEN None
        ELSE IF Included(function_name, local) THEN local
        ELSE IF Included(function_name, imported) THEN imported
        ELSE None

resolve_two_part_name(root_name, func_name, current_module) ==
    LET in_module == resolve_module_function_call(root_name, func_name,
                                                  current_module)
        on_struct == resolve_struct_method_call(root_name, func_name,
                                                current_module)
    IN  IF is_std_module(root_name) THEN None
        ELSE IF Included(func_name, in_module) THEN in_module
        ELSE IF Included(func_name, on_struct) THEN on_struct
        ELSE None

resolve_three_part_name(root_name, mod_name, func_name) ==
    LET external == resolve_external_function_call(root_name, mod_name, func_name)
    IN  IF root_name \in {"std", "0x1", "sui", "0x2"} THEN None
        ELSE IF Included(func_name, external) THEN external
        ELSE None

resolve_call_target(name_chain, current_module) ==
    IF name_chain.kind = "Single"
    THEN resolve_single_name(name_chain.path_entry.name, current_module)
    ELSE IF name_chain.root.kind = "AnonymousAddress" THEN None
    ELSE IF Len(name_chain.entries) = 1
    THEN resolve_two_part_name(name_chain.root.name,
                               name_chain.entries[1].name, current_module)
    ELSE IF Len(name_chain.entries) = 2
    THEN resolve_three_part_name(name_chain.root.name,
                                 name_chain.entries[1].name,
                                 name_chain.entries[2].name)
    ELSE None

generate_call_signature(call_info) == call_info.function

generate_method_call_signature(call_info) == call_info.function

(***************************************************************************)
(* CallAnalyzer: method calls                                              *)
(***************************************************************************)

format_qualified_name_access(name_path) ==
    LET root == CASE name_path.root.kind = "Name" -> name_path.root.name
                  [] name_path.root.kind = "GlobalAddress" ->
                         "@" \o name_path.root.name
                  [] name_path.root.kind = "AnonymousAddress" ->
                         "0x" \o hex_encode(name_path.root.name)
        entry(e) == "::" \o e.name
                        \o (IF e.tyargs.some
                            THEN "<" \o join(types_to_strings(e.tyargs.value), ", ")
                                     \o ">"
                            ELSE "")
    IN  root \o join([i \in 1..Len(name_path.entries) |->
                          entry(name_path.entries[i])], "")

\* CallAnalyzer::name_access_chain_to_string
call_name_access_chain_to_string(name_access_chain) ==
    IF name_access_chain.kind = "Single"
    THEN name_access_chain.path_entry.name
    ELSE format_qualified_name_access(name_access_chain)

SomeType(name) == [kind |-> "Some", name |-> name]

infer_expression_type(expression) ==
    CASE expression.kind = "Name" -> None
      [] expression.kind = "Pack" ->
             SomeType(call_name_access_chain_to_string(expression.name_chain))
      [] expression.kind = "Call" -> None
      [] OTHER -> None

resolve_method_by_type(receiver_type, method_name, current_module) == None

\* seeded fault: a module name is made up from the receiver's variable name
resolve_method_call_by_receiver_name(receiver, method_name, current_module) ==
    IF receiver.kind = "Name" /\ receiver.name_chain.kind = "Single"
    THEN FunctionCall(current_module.file_path, method_name \o "(...)",
                      receiver.name_chain.path_entry.name \o "Module")
    ELSE None

resolve_method_call(receiver, method_name, current_module) ==
    LET receiver_type == infer_expression_type(receiver)
    IN  IF receiver_type = None THEN None
        ELSE resolve_method_by_type(receiver_type.name, method_name,
                                    current_module)

(***************************************************************************)
(* CallAnalyzer: the traversal                                             *)
(***************************************************************************)

Some(exp) == IF exp = NoExp THEN <<>> ELSE <<exp>>

\* the expressions extract_calls_from_sequence descends into, in order
sequence_expressions(sequence) ==
    Flatten([i \in 1..Len(sequence.items) |->
                IF sequence.items[i].kind = "Declare" THEN <<>>
                ELSE <<sequence.items[i].exp>>])
        \o Some(sequence.final)

\* the expressions extract_calls_from_expression descends into, in order, for
\* every variant but Call and DotCall
sub_expressions(e) ==
    CASE e.kind = "Dot" -> <<e.exp>>
      [] e.kind = "BinopExp" -> <<e.left, e.right>>
      [] e.kind = "UnaryExp" -> <<e.exp>>
      [] e.kind = "IfElse" -> <<e.condition, e.then_exp>> \o Some(e.else_exp)
      [] e.kind = "While" -> <<e.condition, e.body>>
      [] e.kind = "Loop" -> <<e.exp>>
      [] e.kind = "Block" -> sequence_expressions(e.sequence)
      [] e.kind = "Assign" -> <<e.lhs, e.rhs>>
      [] e.kind = "Vector" -> e.elements
      [] e.kind = "Pack" -> e.fields
      [] e.kind = "Borrow" -> <<e.exp>>
      [] e.kind = "Dereference" -> <<e.exp>>
      [] e.kind = "Index" -> <<e.base>> \o e.indices
      [] e.kind = "Cast" -> <<e.exp>>
      [] e.kind = "Annotate" -> <<e.exp>>
      [] e.kind = "ExpList" -> e.expressions
      [] e.kind = "Abort" -> Some(e.exp)
      [] e.kind = "Move" -> <<e.exp>>
      [] e.kind = "Copy" -> <<e.exp>>
      [] e.kind = "Quant" -> <<>>
      [] e.kind = "Spec" -> <<>>
      [] e.kind = "Match" -> <<e.match_exp>>
      [] e.kind = "Labeled" -> <<e.exp>>
      [] e.kind = "Lambda" -> <<e.exp>>
      [] e.kind = "Parens" -> <<e.exp>>
      [] e.kind = "Return" -> Some(e.exp)
      [] e.kind = "Break" -> Some(e.exp)
      [] e.kind = "Continue" -> <<>>
      [] e.kind = "UnresolvedError" -> <<>>
      [] e.kind = "DotUnresolved" -> <<e.exp>>
      [] e.kind \in {"Value", "Name", "Unit"} -> <<>>

\* format!("{}::{}", call_info.module, call_signature)
call_key(call_info, call_signature) ==
    call_info.module \o "::" \o call_signature

\* the rest of a DotCall arm once its receiver has been descended into
MethodFrame(e) == [kind |-> "DotCall:resolve", exp |-> e]

\* analyze_calls: fresh accumulator and seen-set, then the body's sequence
AnalyzeCalls ==
    /\ pc = "analyze_calls"
    /\ calls' = <<>>
    /\ visited_calls' = {}
    /\ stack' = IF function.body.kind = "Defined"
                THEN sequence_expressions(function.body.sequence)
                ELSE <<>>
    /\ pc' = "extract"
    /\ UNCHANGED <<analyzer, project, module_info, function>>
    /\ UNCHANGED harness

\* seeded fault: the Call arm without the seen-set test
ExtractCallUnseen ==
    /\ pc = "extract"
    /\ stack # <<>>
    /\ Head(stack).kind = "Call"
    /\ LET e == Head(stack)
           call_info == resolve_call_target(e.name_chain, module_info)
           key == call_key(call_info, generate_call_signature(call_info))
       IN  /\ IF call_info # None
              THEN /\ visited_calls' = visited_calls \cup {key}
                   /\ calls' = Append(calls, call_info)
              ELSE UNCHANGED <<calls, visited_calls>>
           /\ stack' = e.args \o Tail(stack)
    /\ UNCHANGED <<analyzer, project, module_info, function, pc>>
    /\ UNCHANGED harness

\* seeded fault: the Call arm descending into the arguments of resolved
\* calls only
ExtractCallResolvedArguments ==
    /\ pc = "extract"
    /\ stack # <<>>
    /\ Head(stack).kind = "Call"
    /\ LET e == Head(stack)
           call_info == resolve_call_target(e.name_chain, module_info)
           key == call_key(call_info, generate_call_signature(call_info))
       IN  /\ IF call_info # None /\ key \notin visited_calls
              THEN /\ visited_calls' = visited_calls \cup {key}
                   /\ calls' = Append(calls, call_info)
              ELSE UNCHANGED <<calls, visited_calls>>
           /\ stack' = (IF call_info # None THEN e.args ELSE <<>>)
                            \o Tail(stack)
    /\ UNCHANGED <<analyzer, project, module_info, function, pc>>
    /\ UNCHANGED harness

\* Exp_::Call arm
ExtractCall ==
    /\ pc = "extract"
    /\ stack # <<>>
    /\ Head(stack).kind = "Call"
    /\ LET e == Head(stack)
           call_info == resolve_call_target(e.name_chain, module_info)
           key == call_key(call_info, generate_call_signature(call_info))
       IN  /\ IF call_info # None /\ key \notin visited_calls
              THEN /\ visited_calls' = visited_calls \cup {key}
                   /\ calls' = Append(calls, call_info)
              ELSE UNCHANGED <<calls, visited_calls>>
           /\ stack' = e.args \o Tail(stack)
    /\ UNCHANGED <<analyzer, project, module_info, function, pc>>
    /\ UNCHANGED harness

\* Exp_::DotCall arm: the receiver first
ExtractDotCall ==
    /\ pc = "extract"
    /\ stack # <<>>
    /\ Head(stack).kind = "DotCall"
    /\ stack' = <<Head(stack).receiver, MethodFrame(Head(stack))>> \o Tail(stack)
    /\ UNCHANGED <<analyzer, project, module_info, function, calls, visited_calls, pc>>
    /\ UNCHANGED harness

\* Exp_::DotCall arm: the method's own resolution, then its arguments
ResolveDotCall ==
    /\ pc = "extract"
    /\ stack # <<>>
    /\ Head(stack).kind = "DotCall:resolve"
    /\ LET e == Head(stack).exp
           call_info == IF is_member_method_pattern(e.method_name) THEN None
                        ELSE resolve_method_call(e.receiver, e.method_name,
                                                 module_info)
           key == call_key(call_info, generate_method_call_signature(call_info))
       IN  /\ IF /\ call_info # None
                 /\ should_include_in_call_graph(e.method_name, call_info.module)
                 /\ key \notin visited_calls
              THEN /\ visited_calls' = visited_calls \cup {key}
                   /\ calls' = Append(calls, call_info)
              ELSE UNCHANGED <<calls, visited_calls>>
           /\ stack' = e.args \o Tail(stack)
    /\ UNCHANGED <<analyzer, project, module_info, function, pc>>
    /\ UNCHANGED harness

\* seeded fault: the IfElse arm without its else branch
ExtractSubExpressionsWithoutElse ==
    /\ pc = "extract"
    /\ stack # <<>>
    /\ Head(stack).kind \notin {"Call", "DotCall", "DotCall:resolve"}
    /\ stack' = (IF Head(stack).kind = "IfElse"
                 THEN <<Head(stack).condition, Head(stack).then_exp>>
                 ELSE sub_expressions(Head(stack))) \o Tail(stack)
    /\ UNCHANGED <<analyzer, project, module_info, function, calls, visited_calls, pc>>
    /\ UNCHANGED harness

\* every other arm of extract_calls_from_expression
ExtractSubExpressions ==
    /\ pc = "extract"
    /\ stack # <<>>
    /\ Head(stack).kind \notin {"Call", "DotCall", "DotCall:resolve"}
    /\ stack' = sub_expressions(Head(stack)) \o Tail(stack)
    /\ UNCHANGED <<analyzer, project, module_info, function, calls, visited_calls, pc>>
    /\ UNCHANGED harness

\* analyze_calls returns `calls`
ReturnCalls ==
    /\ pc = "extract"
    /\ stack = <<>>
    /\ pc' = "done"
    /\ UNCHANGED <<analyzer, project, module_info, function, stack, calls, visited_calls>>
    /\ UNCHANGED harness

(***************************************************************************)
(* Inputs: the projects and the function bodies the runs are drawn from    *)
(***************************************************************************)

\* nesting depth of the generated bodies, and statements per generated body
MaxDepth == 2
MaxStatements == 2

Named(name) == TApply(Single(Entry(name)))
U64 == Named("u64")
OrderT == Named("Order")
EmptyBody == Defined(Sequence(<<>>, NoExp))
Fn(name, parameters, return_type) ==
    MemberFunction(Function(name, parameters, return_type, EmptyBody))

\* a 32-byte account address with the given last byte
Addr(last) == [i \in 1..32 |-> IF i = 32 THEN last ELSE 0]

\* the modules of the projects; `own` is the analyzed function when the module
\* is its home, and nothing otherwise
MarketModule(own) ==
    ModuleDefinition("market",
        <<MemberStruct("Order")>> \o own \o
        <<Fn("helper", <<Param("x", U64)>>, U64),
          Fn("helper2", <<>>, TUnit),
          Fn("get_price", <<Param("o", TRef(FALSE, OrderT))>>, U64),
          Fn("fill", <<Param("o", TRef(TRUE, OrderT)), Param("n", U64)>>, TUnit),
          Fn("step1", <<>>, TUnit), Fn("step2", <<>>, TUnit),
          Fn("step3", <<>>, TUnit), Fn("step4", <<>>, TUnit),
          Fn("step5", <<>>, TUnit), Fn("step6", <<>>, TUnit),
          Fn("step7", <<>>, TUnit), Fn("step8", <<>>, TUnit),
          Fn("step9", <<>>, TUnit), Fn("step10", <<>>, TUnit),
          Fn("step11", <<>>, TUnit), Fn("step12", <<>>, TUnit)>>)

UtilModule ==
    ModuleDefinition("util",
        <<Fn("compute", <<Param("x", U64)>>, U64),
          Fn("is_ok", <<>>, Named("bool")),
          Fn("settle", <<Param("n", U64), Param("o", OrderT)>>, TUnit),
          Fn("make", <<>>, OrderT),
          Fn("pair", <<>>, TMultiple(<<U64, OrderT>>)),
          Fn("all", <<Param("v", TApply(Single(PathEntry("vector",
                                  TyArgs(<<OrderT>>)))))>>, TUnit),
          Fn("boxed", <<Param("b", TApply(Single(PathEntry("Box",
                                  TyArgs(<<OrderT>>)))))>>, TUnit),
          Fn("qual", <<Param("o", TApply(Path(LeadingName("market"),
                                  <<Entry("Order")>>)))>>, TUnit),
          Fn("at", <<Param("o", TApply(Path(AnonymousAddress(Addr(66)),
                                  <<Entry("market"), Entry("Order")>>)))>>, TUnit),
          Fn("each", <<Param("f", TFun(<<OrderT>>, U64))>>, TUnit)>>)

HiddenModule ==
    ModuleDefinition("hidden", <<Fn("ghost", <<Param("o", OrderT)>>, TUnit)>>)

TableModule(own) ==
    ModuleDefinition("table",
        own \o <<Fn("add", <<Param("k", U64)>>, TUnit),
                 Fn("wrap", <<Param("o", OrderT)>>, OrderT),
                 Fn("helper", <<>>, TUnit)>>)

MarketTestsModule(own) ==
    ModuleDefinition("market_tests",
        own \o <<Fn("check", <<Param("o", TRef(FALSE, OrderT))>>, Named("bool")),
                 Fn("helper", <<>>, TUnit)>>)

DepMarketModule(own) ==
    ModuleDefinition("market",
        own \o <<Fn("helper", <<Param("y", Named("bool"))>>, Named("bool")),
                 Fn("helper2", <<>>, TUnit),
                 Fn("cancel", <<Param("o", OrderT)>>, TUnit)>>)

\* where the analyzed function is declared: module name and file
Homes ==
    {ModuleInfo("market", "sources/market.move"),
     ModuleInfo("table", "sources/util.move"),
     ModuleInfo("market_tests", "tests/market_tests.move"),
     ModuleInfo("market", "dep/sources/market.move")}

\* the project with the functions of the jobs declared in their modules
ProjectOf(jobs) ==
    LET own(info) ==
            Flatten([i \in 1..Len(jobs) |->
                        IF jobs[i].module_info = info
                        THEN <<MemberFunction(jobs[i].function)>> ELSE <<>>])
    IN  <<SourceDefs(
            <<File("sources/market.move",
                   <<MarketModule(own(ModuleInfo("market", "sources/market.move")))>>),
              File("sources/util.move",
                   <<UtilModule,
                     AddressDefinition(<<HiddenModule>>),
                     TableModule(own(ModuleInfo("table", "sources/util.move")))>>)>>,
            <<File("tests/market_tests.move",
                   <<MarketTestsModule(
                         own(ModuleInfo("market_tests",
                                        "tests/market_tests.move")))>>)>>),
          SourceDefs(
            <<File("dep/sources/market.move",
                   <<DepMarketModule(
                         own(ModuleInfo("market", "dep/sources/market.move")))>>)>>,
            <<>>)>>

\* the project with function f declared in module `home`
ProjectWith(home, f) == ProjectOf(<<[function |-> f, module_info |-> home]>>)

\* project.modules is a map keyed by package path: its iteration order is
\* not fixed, so either package may come first
PackageOrders(packages) == {packages, <<packages[2], packages[1]>>}

\* call expressions
Direct(name, args) == Call(Single(Entry(name)), args)
Qualified(scope, name, args) ==
    Call(Path(LeadingName(scope), <<Entry(name)>>), args)
Triple(root, module, name, args) ==
    Call(Path(root, <<Entry(module), Entry(name)>>), args)
Var(name) == Name(Single(Entry(name)))
OrderValue == Pack(Single(Entry("Order")), <<Value(1)>>)

DirectNames ==
    {"helper", "helper2", "get_price", "fill", "step1", "main", "assert",
     "move_to", "freeze", "missing", "check", "compute", "add", "cancel"}

QualifiedNames ==
    {<<"util", "compute">>, <<"util", "is_ok">>, <<"util", "missing">>,
     <<"nowhere", "compute">>, <<"hidden", "ghost">>,
     <<"market", "helper">>, <<"market", "helper2">>, <<"market", "cancel">>,
     <<"market", "get_price">>, <<"market_tests", "check">>,
     <<"table", "add">>, <<"vector", "push_back">>, <<"option", "some">>,
     <<"Order", "fill">>, <<"Order", "get_price">>, <<"Order", "settle">>,
     <<"Order", "make">>, <<"Order", "pair">>, <<"Order", "all">>,
     <<"Order", "boxed">>, <<"Order", "qual">>, <<"Order", "at">>,
     <<"market", "at">>, <<"Order", "each">>, <<"Order", "wrap">>,
     <<"Order", "check">>, <<"Order", "cancel">>, <<"Order", "ghost">>,
     <<"Order", "compute">>, <<"u64", "compute">>}

TripleNames ==
    {<<LeadingName("std"), "vector", "length">>,
     <<LeadingName("sui"), "coin", "mint">>,
     <<LeadingName("deepbook"), "pool", "swap">>,
     <<LeadingName("deepbook"), "pool", "get_quote">>,
     <<LeadingName("deepbook"), "pool", "assert">>,
     <<LeadingName("deepbook"), "table", "add">>,
     <<LeadingName("market"), "market", "helper">>,
     <<GlobalAddress("deepbook"), "pool", "swap">>,
     <<GlobalAddress("std"), "vector", "length">>,
     <<AnonymousAddress(Addr(1)), "vector", "length">>,
     <<AnonymousAddress(Addr(2)), "coin", "mint">>,
     <<AnonymousAddress(Addr(66)), "pool", "swap">>}

MethodCalls ==
    {DotCall(Var("order"), "fill", <<>>),
     DotCall(Var("order"), "helper", <<>>),
     DotCall(Var("order"), "get_price", <<>>),
     DotCall(Var("market"), "helper", <<>>),
     DotCall(Direct("helper", <<>>), "fill", <<>>),
     DotCall(Exp1("Borrow", Var("order")), "fill", <<>>),
     DotCall(OrderValue, "fill", <<>>),
     DotCall(OrderValue, "price", <<>>),
     DotCall(Pack(Path(LeadingName("market"), <<Entry("Order")>>), <<>>),
             "cancel", <<>>)}

CallAtoms ==
    {Direct(n, <<>>) : n \in DirectNames}
        \cup {Qualified(q[1], q[2], <<>>) : q \in QualifiedNames}
        \cup {Triple(t[1], t[2], t[3], <<>>) : t \in TripleNames}
        \cup {Call(Path(LeadingName("a"), <<Entry("b"), Entry("c"), Entry("d")>>),
                   <<>>),
              Call(Path(AnonymousAddress(Addr(66)), <<Entry("helper")>>), <<>>)}
        \cup MethodCalls

\* expressions without sub-expressions
Leaves ==
    {Unit, Value(1), Var("order"), Continue, UnresolvedError,
     Exp1("Abort", NoExp), Exp1("Return", NoExp), Exp1("Break", NoExp)}

\* the calls used where bodies are combined
CoreAtoms ==
    {Direct("helper", <<>>), Direct("helper2", <<>>), Direct("get_price", <<>>),
     Direct("assert", <<>>), Qualified("market", "helper2", <<>>),
     Qualified("Order", "fill", <<>>),
     Triple(LeadingName("deepbook"), "pool", "swap", <<>>),
     DotCall(Var("order"), "fill", <<>>)}

\* every child position of every expression variant
Positions ==
    {"if_cond", "if_then", "if_else", "while_cond", "while_body", "loop",
     "block_seq", "block_bind", "block_final", "binop_left", "binop_right",
     "unary", "pack_field", "vector_element",
     "assign_lhs", "assign_rhs", "borrow", "dereference", "index_base",
     "index_index", "cast", "annotate", "exp_list", "abort", "move", "copy",
     "labeled", "lambda", "parens", "return", "break", "dot_unresolved", "dot",
     "match_subject", "match_arm", "match_guard", "quant", "spec",
     "arg_direct", "arg_intrinsic", "arg_std", "arg_unresolved", "arg_qualified",
     "arg_external", "receiver_accessor", "receiver_method", "method_arg",
     "accessor_arg"}

\* the positions used at the outer levels of deeper nestings
OuterPositions ==
    {"block_seq", "if_then", "arg_intrinsic", "arg_std", "receiver_accessor",
     "method_arg", "match_arm"}

\* expression e placed at child position p of an expression
Place(p, e) ==
    CASE p = "if_cond" -> IfElse(e, Unit, NoExp)
      [] p = "if_then" -> IfElse(Var("c"), e, NoExp)
      [] p = "if_else" -> IfElse(Var("c"), Unit, e)
      [] p = "while_cond" -> While(e, Unit)
      [] p = "while_body" -> While(Var("c"), e)
      [] p = "loop" -> Exp1("Loop", e)
      [] p = "block_seq" -> Block(Sequence(<<Seq_(e)>>, NoExp))
      [] p = "block_bind" -> Block(Sequence(<<Declare, Bind(e)>>, NoExp))
      [] p = "block_final" -> Block(Sequence(<<Declare>>, e))
      [] p = "binop_left" -> BinopExp(e, Value(1))
      [] p = "binop_right" -> BinopExp(Value(1), e)
      [] p = "unary" -> Exp1("UnaryExp", e)
      [] p = "pack_field" -> Pack(Single(Entry("Order")), <<Value(1), e>>)
      [] p = "vector_element" -> Vector(<<Value(1), e>>)
      [] p = "assign_lhs" -> Assign(e, Value(1))
      [] p = "assign_rhs" -> Assign(Var("v"), e)
      [] p = "borrow" -> Exp1("Borrow", e)
      [] p = "dereference" -> Exp1("Dereference", e)
      [] p = "index_base" -> Index(e, <<Value(1)>>)
      [] p = "index_index" -> Index(Var("v"), <<Value(1), e>>)
      [] p = "cast" -> Exp1("Cast", e)
      [] p = "annotate" -> Exp1("Annotate", e)
      [] p = "exp_list" -> ExpList(<<Value(1), e>>)
      [] p = "abort" -> Exp1("Abort", e)
      [] p = "move" -> Exp1("Move", e)
      [] p = "copy" -> Exp1("Copy", e)
      [] p = "labeled" -> Exp1("Labeled", e)
      [] p = "lambda" -> Exp1("Lambda", e)
      [] p = "parens" -> Exp1("Parens", e)
      [] p = "return" -> Exp1("Return", e)
      [] p = "break" -> Exp1("Break", e)
      [] p = "dot_unresolved" -> Exp1("DotUnresolved", e)
      [] p = "dot" -> Exp1("Dot", e)
      [] p = "match_subject" -> Match(e, <<MatchArm(NoExp, Unit)>>)
      [] p = "match_arm" -> Match(Var("v"), <<MatchArm(NoExp, e)>>)
      [] p = "match_guard" -> Match(Var("v"), <<MatchArm(e, Unit)>>)
      [] p = "quant" -> Quant(e)
      [] p = "spec" -> SpecBlock(e)
      [] p = "arg_direct" -> Direct("helper", <<e>>)
      [] p = "arg_intrinsic" -> Direct("assert", <<e, Value(1)>>)
      [] p = "arg_std" -> Qualified("vector", "push_back", <<Var("v"), e>>)
      [] p = "arg_unresolved" -> Direct("missing", <<e>>)
      [] p = "arg_qualified" -> Qualified("util", "compute", <<e>>)
      [] p = "arg_external" ->
             Triple(LeadingName("deepbook"), "pool", "swap", <<e>>)
      [] p = "receiver_accessor" -> DotCall(e, "get_price", <<>>)
      [] p = "receiver_method" -> DotCall(e, "fill", <<>>)
      [] p = "method_arg" -> DotCall(Var("order"), "fill", <<e>>)
      [] p = "accessor_arg" -> DotCall(Var("order"), "is_empty", <<e>>)

\* the calls and the positions used below the first level of deeper nestings
DeepAtoms ==
    {Direct("helper", <<>>), Qualified("Order", "fill", <<>>),
     DotCall(Var("order"), "fill", <<>>)}

DeepPositions == {"block_final", "arg_intrinsic", "match_arm"}

RECURSIVE Nested(_)
\* expressions with a call (or a leaf) nested d levels deep
Nested(d) ==
    IF d = 0 THEN CallAtoms
    ELSE IF d = 1
    THEN {Place(p, a) : p \in Positions, a \in CoreAtoms}
           \cup {Place(p, a) : p \in OuterPositions, a \in CallAtoms \cup Leaves}
    ELSE IF d = 2
    THEN {Place(p, Place(q, a)) :
              p \in OuterPositions, q \in Positions, a \in DeepAtoms}
    ELSE {Place(p, e) : p \in DeepPositions, e \in Nested(d - 1)}

RECURSIVE Statements(_)
\* the sequences of n core calls
Statements(n) ==
    IF n = 0 THEN {<<>>}
    ELSE {<<a>> \o rest : a \in CoreAtoms, rest \in Statements(n - 1)}

\* one call in each construct of the traversal property, all callees distinct
TraversalBody ==
    Sequence(
        <<Seq_(IfElse(Direct("step1", <<>>), Direct("step2", <<>>),
                      Direct("step3", <<>>))),
          Seq_(While(Direct("step4", <<>>), Direct("step5", <<>>))),
          Seq_(Exp1("Loop", Direct("step6", <<>>))),
          Seq_(Block(Sequence(<<Seq_(Direct("step7", <<>>))>>, NoExp))),
          Bind(BinopExp(Direct("step8", <<>>), Direct("step9", <<>>))),
          Seq_(Exp1("UnaryExp", Direct("step10", <<>>))),
          Seq_(Pack(Single(Entry("Order")), <<Direct("step11", <<>>)>>))>>,
        Vector(<<Direct("step12", <<>>)>>))

Statement(e) == Defined(Sequence(<<Seq_(e)>>, NoExp))

\* bodies analyzed in every home module
Bodies ==
    {Statement(e) : e \in Nested(0) \cup Nested(1)}
      \cup {Defined(Sequence(<<>>, e)) : e \in CoreAtoms}
      \cup {Defined(Sequence([i \in 1..Len(st) |-> Seq_(st[i])], NoExp)) :
                st \in UNION {Statements(n) : n \in 0..MaxStatements}}
      \cup {Defined(TraversalBody), Native}

\* bodies with deeper nesting, analyzed in the homes below
DeepBodies == {Statement(e) : e \in UNION {Nested(d) : d \in 2..MaxDepth}}

DeepHomes ==
    {ModuleInfo("market", "sources/market.move"),
     ModuleInfo("market_tests", "tests/market_tests.move")}

(***************************************************************************)
(* The specification                                                       *)
(***************************************************************************)

Init ==
    /\ \/ module_info \in Homes
          /\ \E body \in Bodies :
                 function = Function("main", <<Param("n", U64)>>, TUnit, body)
       \/ module_info \in DeepHomes
          /\ \E body \in DeepBodies :
                 function = Function("main", <<Param("n", U64)>>, TUnit, body)
    /\ project \in PackageOrders(ProjectWith(module_info, function))
    /\ stack = <<>>
    /\ calls = <<>>
    /\ visited_calls = {}
    /\ pc = "analyze_calls"
    /\ requested_name = function.name
    /\ file_system = <<>>
    /\ function_defs = <<>>
    /\ def_index = 0
    /\ analysis_results = <<>>
    /\ partial_errors = <<>>
    /\ result = None
    /\ call = None
    /\ outcome = None
    /\ host = None

Next ==
    \/ AnalyzeCalls
    \/ ExtractCall
    \/ ExtractDotCall
    \/ ResolveDotCall
    \/ ExtractSubExpressions
    \/ ReturnCalls

Spec == Init /\ [][Next]_vars

(***************************************************************************)
(* Vocabulary of the properties                                            *)
(***************************************************************************)

\* the operand expressions of an expression, as the syntax tree defines them
\* (every child position, whether or not the traversal descends into it)
operands(e) ==
    CASE e.kind \in OneOperandKinds -> Some(e.exp)
      [] e.kind = "Call" -> e.args
      [] e.kind = "DotCall" -> <<e.receiver>> \o e.args
      [] e.kind = "BinopExp" -> <<e.left, e.right>>
      [] e.kind = "IfElse" -> <<e.condition, e.then_exp>> \o Some(e.else_exp)
      [] e.kind = "While" -> <<e.condition, e.body>>
      [] e.kind = "Block" ->
             [i \in 1..Len(e.sequence.items) |-> e.sequence.items[i].exp]
                 \o <<e.sequence.final>>
      [] e.kind = "Assign" -> <<e.lhs, e.rhs>>
      [] e.kind = "Vector" -> e.elements
      [] e.kind = "Pack" -> e.fields
      [] e.kind = "Index" -> <<e.base>> \o e.indices
      [] e.kind = "ExpList" -> e.expressions
      [] e.kind = "Match" ->
             <<e.match_exp>>
                 \o Flatten([i \in 1..Len(e.arms) |->
                                <<e.arms[i].guard, e.arms[i].rhs>>])
      [] e.kind \in {"Quant", "Spec"} -> <<e.body>>
      [] OTHER -> <<>>

CallKinds == {"Call", "DotCall"}

\* the constructs the traversal property of the specification lists
ListedKinds ==
    {"IfElse", "While", "Loop", "Block", "BinopExp", "UnaryExp", "Pack", "Vector"}

\* every executable variant with operands (quantifiers and spec blocks are
\* specification-only)
ExecutableKinds ==
    OneOperandKinds \cup CallKinds \cup ListedKinds
        \cup {"Assign", "Index", "ExpList", "Match"}

RECURSIVE CallsWithin(_, _)
\* the call-shaped expressions at or inside e, descending through the
\* operands of expressions of the given kinds only
CallsWithin(kinds, e) ==
    (IF e.kind \in CallKinds THEN {e} ELSE {})
        \cup (IF e.kind \in kinds
              THEN UNION {CallsWithin(kinds, operands(e)[i]) :
                              i \in 1..Len(operands(e))}
              ELSE {})

\* the expressions of the analyzed body's statements and its final expression
BodyStatements ==
    IF function.body.kind = "Defined"
    THEN {function.body.sequence.items[i].exp :
              i \in 1..Len(function.body.sequence.items)}
             \cup {function.body.sequence.final}
    ELSE {}

BodyCalls(kinds) == UNION {CallsWithin(kinds, t) : t \in BodyStatements}

\* the record the analyzer's resolution gives for a call expression
Edge(c) == resolve_call_target(c.name_chain, module_info)
Resolvable(c) == c.kind = "Call" /\ Edge(c) # None
\* an edge is identified by its (module name, rendered signature) pair
SameEdge(r, q) == r.module = q.module /\ r.function = q.function
Recorded(r) == \E i \in 1..Len(calls) : SameEdge(calls[i], r)

IsDirect(c) == c.kind = "Call" /\ c.name_chain.kind = "Single"
IsQualified(c) ==
    /\ c.kind = "Call"
    /\ c.name_chain.kind = "Path"
    /\ Len(c.name_chain.entries) = 1
    /\ c.name_chain.root.kind # "AnonymousAddress"
IsTriple(c) ==
    /\ c.kind = "Call"
    /\ c.name_chain.kind = "Path"
    /\ Len(c.name_chain.entries) = 2

IsExternalMarker(file) == starts_with(file, "<external:")

MarketHome == ModuleInfo("market", "sources/market.move")
DepMarketHome == ModuleInfo("market", "dep/sources/market.move")

\* the functions declared in the module the analyzed function lives in
LocalFunctions == Range(FunctionsOf(find_module_definition(module_info)))

(***************************************************************************)
(* C1  Exhaustive traversal: when the analysis has returned, every         *)
(* resolvable same-module call nested (at any depth) inside an if          *)
(* condition or branch, a while condition or body, a loop body, a nested   *)
(* block, a binary or unary operand, a struct-pack field or a vector       *)
(* element has its edge in the call list, and distinct callees give as     *)
(* many edges.                                                             *)
(***************************************************************************)
ListedConstructCalls ==
    {c \in BodyCalls(ListedKinds) : IsDirect(c) /\ Resolvable(c)}

ExhaustiveTraversal ==
    pc = "done" =>
        /\ \A c \in ListedConstructCalls : Recorded(Edge(c))
        /\ Len(calls) >= Cardinality({c.name_chain.path_entry.name :
                                          c \in ListedConstructCalls})

\* the body with one call in each listed construct has been analyzed
ExhaustiveTraversalWitness ==
    /\ pc = "done"
    /\ function.body = Defined(TraversalBody)
    /\ module_info = MarketHome
    /\ Cardinality(ListedConstructCalls) = 12
    /\ Len(calls) = 12

(***************************************************************************)
(* C2  Every child position: when the analysis has returned, every         *)
(* resolvable call in any operand position of any executable expression    *)
(* variant -- match arms, lambda bodies, labeled expressions, index        *)
(* operands, casts, assignment sides, return/break/abort operands          *)
(* included -- has its edge in the call list.                              *)
(***************************************************************************)
EveryChildPositionTraversed ==
    pc = "done" =>
        \A c \in BodyCalls(ExecutableKinds) :
            Resolvable(c) => Recorded(Edge(c))

(***************************************************************************)
(* C3  Deduplication: the call list never holds two records with the same  *)
(* (module name, rendered signature) pair, and when the analysis has       *)
(* returned every resolvable call invoked in the body (as a statement, or  *)
(* nested in call arguments, receivers and the listed constructs) has      *)
(* exactly one record, however often it is invoked.                        *)
(***************************************************************************)
NoDuplicateEdges ==
    /\ \A i, j \in 1..Len(calls) : SameEdge(calls[i], calls[j]) => i = j
    /\ pc = "done" =>
           \A c \in BodyCalls(ListedKinds \cup CallKinds) :
               Resolvable(c) =>
                   Cardinality({i \in 1..Len(calls) :
                                   SameEdge(calls[i], Edge(c))}) = 1

\* `{ helper(); helper(); }` has been analyzed and gave one record
NoDuplicateEdgesWitness ==
    /\ pc = "done"
    /\ function.body =
           Defined(Sequence(<<Seq_(Direct("helper", <<>>)),
                              Seq_(Direct("helper", <<>>))>>, NoExp))
    /\ module_info = MarketHome
    /\ Len(calls) = 1

\* the traversal is about to handle the call expression at the head of its
\* work list
AtCall == pc = "extract" /\ stack # <<>> /\ Head(stack).kind = "Call"

\* the traversal is about to resolve the method of a method-call expression
AtMethodResolution ==
    pc = "extract" /\ stack # <<>> /\ Head(stack).kind = "DotCall:resolve"

\* the records of the call list after the step
RecordsAfter == {calls'[i] : i \in 1..Len(calls')}

(***************************************************************************)
(* C4  Direct calls: handling a single-identifier call leaves in the call  *)
(* list an edge to the current module's function of that name -- carrying  *)
(* the current module's name, its file path and the function's rendered    *)
(* signature -- exactly when the name is not an intrinsic and the current  *)
(* module defines it, whatever the name's spelling; otherwise the call     *)
(* adds nothing.                                                           *)
(***************************************************************************)
DirectCallEdge ==
    [][(AtCall /\ IsDirect(Head(stack))) =>
          LET name == Head(stack).name_chain.path_entry.name
              defs == {f \in LocalFunctions : f.name = name}
          IN  IF ~is_builtin_function(name) /\ defs # {}
              THEN \E r \in RecordsAfter :
                       /\ r.module = module_info.name
                       /\ r.file = module_info.file_path
                       /\ \E f \in defs :
                              r.function = generate_function_signature(f)
              ELSE calls' = calls]_vars

(***************************************************************************)
(* C5  Undetermined receivers: resolving a method call whose receiver is   *)
(* not a struct construction (a variable, a call result, a borrow, ...)    *)
(* leaves the call list unchanged -- in particular no record whose module  *)
(* name is made up from the receiver's variable name is added.             *)
(***************************************************************************)
UndeterminedReceiverAddsNothing ==
    [][(AtMethodResolution /\ Head(stack).exp.receiver.kind # "Pack") =>
          calls' = calls]_vars

\* `{ order.fill(); }` has been analyzed: fill is a function of the current
\* module, and no record was produced
UndeterminedReceiverWitness ==
    /\ pc = "done"
    /\ function.body = Statement(DotCall(Var("order"), "fill", <<>>))
    /\ module_info = MarketHome
    /\ \E f \in LocalFunctions : f.name = "fill"
    /\ calls = <<>>

(***************************************************************************)
(* C6  Non-fabrication: every record of the call list that does not carry  *)
(* an external marker names a module of the project, the file that module  *)
(* is defined in, and the rendered signature of a function that module     *)
(* declares; there are no placeholder records.                             *)
(***************************************************************************)
DenotesProjectFunction(r) ==
    \E i \in 1..Len(AllModules) :
        /\ AllModules[i].module_def.name = r.module
        /\ AllModules[i].file_path = r.file
        /\ \E f \in Range(FunctionsOf(AllModules[i].module_def)) :
               generate_function_signature(f) = r.function

NonFabrication ==
    \A i \in 1..Len(calls) :
        ~IsExternalMarker(calls[i].file) => DenotesProjectFunction(calls[i])

\* `{ util::compute(); }` has been analyzed from the dependency's module:
\* the record names module util, its file and compute's signature
NonFabricationWitness ==
    /\ pc = "done"
    /\ module_info = DepMarketHome
    /\ function.body = Statement(Qualified("util", "compute", <<>>))
    /\ calls = <<FunctionCall("sources/util.move", "compute(x: u64): u64",
                              "util")>>

(***************************************************************************)
(* C7  Arguments are always scanned: when the analysis has returned, every *)
(* resolvable call nested in the arguments or the receiver of a            *)
(* call-shaped expression (direct, qualified, external or method call) has *)
(* its edge in the call list, whether or not the enclosing call itself     *)
(* resolved to an edge.  (Nesting through further call-shaped expressions  *)
(* and the constructs of C1.)                                              *)
(***************************************************************************)
ScannedKinds == ListedKinds \cup CallKinds

ArgumentsAlwaysScanned ==
    pc = "done" =>
        \A o \in BodyCalls(ScannedKinds) :
            \A k \in 1..Len(operands(o)) :
                \A c \in CallsWithin(ScannedKinds, operands(o)[k]) :
                    Resolvable(c) => Recorded(Edge(c))

\* a finished analysis of a call-shaped statement that itself gave no edge
\* while a call among its operands did
ArgumentsAlwaysScannedWitness ==
    /\ pc = "done"
    /\ \E o \in BodyStatements :
           /\ o.kind \in CallKinds
           /\ ~Resolvable(o)
           /\ \E k \in 1..Len(operands(o)) :
                  /\ Resolvable(operands(o)[k])
                  /\ calls = <<Edge(operands(o)[k])>>

\* the standard-library module names the specification lists
StandardLibraryModules ==
    {"vector", "option", "string", "ascii", "type_name", "bcs", "hash",
     "debug", "signer", "error", "fixed_point32", "bit_vector", "table",
     "bag", "object_table", "linked_table", "priority_queue"}

\* the project's modules, regular and test-only, with their files
ProjectModules == Range(AllModules)

(***************************************************************************)
(* C8  Qualified calls: handling `scope::name`, scope not a standard-      *)
(* library module name, leaves in the call list an edge to name in a       *)
(* module named scope when such a module defines it; otherwise it leaves   *)
(* an edge to a function called name exactly when some module of the       *)
(* project -- regular or test-only, the current one or another -- defines  *)
(* name with a parameter or return type referencing a type named scope,    *)
(* and adds nothing when there is none.                                    *)
(***************************************************************************)
QualifiedCallEdge ==
    [][(AtCall /\ IsQualified(Head(stack))
            /\ Head(stack).name_chain.root.name \notin StandardLibraryModules) =>
          LET scope == Head(stack).name_chain.root.name
              name == Head(stack).name_chain.entries[1].name
              in_module ==
                  {m \in ProjectModules :
                      /\ m.module_def.name = scope
                      /\ \E f \in Range(FunctionsOf(m.module_def)) :
                             f.name = name}
              on_struct(m) ==
                  {f \in Range(FunctionsOf(m.module_def)) :
                      f.name = name /\ function_operates_on_struct(f, scope)}
          IN  IF in_module # {}
              THEN \E r \in RecordsAfter, m \in in_module :
                       /\ r.module = scope
                       /\ \E f \in Range(FunctionsOf(m.module_def)) :
                              /\ f.name = name
                              /\ r.function = generate_function_signature(f)
              ELSE IF \E m \in ProjectModules : on_struct(m) # {}
              THEN \E r \in RecordsAfter, m \in ProjectModules :
                       /\ r.module = m.module_def.name
                       /\ \E f \in on_struct(m) :
                              r.function = generate_function_signature(f)
              ELSE calls' = calls]_vars

(***************************************************************************)
(* C9  Standard-library scopes: handling `scope::name` with scope one of   *)
(* the standard-library module names leaves the call list unchanged, even  *)
(* when the project defines a module of that name with that function; and  *)
(* no other scope is skipped on this ground: when the module named by a    *)
(* non-standard scope defines a function of an ordinary name, the edge to  *)
(* it is in the call list afterwards.                                      *)
(***************************************************************************)
StdScopeNeverAnEdge ==
    [][(AtCall /\ IsQualified(Head(stack))) =>
          LET scope == Head(stack).name_chain.root.name
              name == Head(stack).name_chain.entries[1].name
              found == find_module_by_name(scope)
              defs == IF found = None THEN {}
                      ELSE {f \in Range(FunctionsOf(found.module_def)) :
                               f.name = name}
          IN  /\ scope \in StandardLibraryModules => calls' = calls
              /\ (/\ scope \notin StandardLibraryModules
                  /\ defs # {}
                  /\ ~is_builtin_function(name)
                  /\ ~is_member_method_pattern(name)) =>
                     \E r \in RecordsAfter, f \in defs :
                         /\ r.module = scope
                         /\ r.function = generate_function_signature(f)]_vars

\* `{ table::add(); }` has been analyzed in a project whose module table
\* declares add, and gave no record
StdScopeWitness ==
    /\ pc = "done"
    /\ function.body = Statement(Qualified("table", "add", <<>>))
    /\ module_info = MarketHome
    /\ \E m \in ProjectModules :
           /\ m.module_def.name = "table"
           /\ \E f \in Range(FunctionsOf(m.module_def)) : f.name = "add"
    /\ calls = <<>>

(***************************************************************************)
(* C10  External calls: handling `address::module::name` leaves the call   *)
(* list unchanged when the address is a standard/framework namespace (std, *)
(* 0x1, sui, 0x2); for every other address, named or numeric, the call     *)
(* list afterwards holds exactly one external record for it: an external   *)
(* marker as file path, the module name, and a signature naming name.      *)
(***************************************************************************)
IsFrameworkAddress(root) ==
    IF root.kind = "AnonymousAddress"
    THEN root.name \in {Addr(1), Addr(2)}
    ELSE root.name \in {"std", "sui"}

ExternalCallEdge ==
    [][(AtCall /\ IsTriple(Head(stack))) =>
          LET root == Head(stack).name_chain.root
              mod == Head(stack).name_chain.entries[1].name
              name == Head(stack).name_chain.entries[2].name
          IN  IF IsFrameworkAddress(root)
              THEN calls' = calls
              ELSE Cardinality({i \in 1..Len(calls') :
                                   /\ IsExternalMarker(calls'[i].file)
                                   /\ calls'[i].module = mod
                                   /\ starts_with(calls'[i].function,
                                                  name \o "(")}) = 1]_vars

(***************************************************************************)
(* C11  Constructed receivers: resolving a method call whose receiver is a *)
(* struct construction of type T and whose method name is not an accessor  *)
(* pattern leaves in the call list an edge to a function of that name      *)
(* whenever a module named T declares it or some function of that name in  *)
(* the project operates on T; only when there is none is the call          *)
(* dropped.                                                                *)
(***************************************************************************)
ConstructedReceiverEdge ==
    [][(/\ AtMethodResolution
        /\ Head(stack).exp.receiver.kind = "Pack"
        /\ ~is_member_method_pattern(Head(stack).exp.method_name)) =>
          LET T == call_name_access_chain_to_string(
                       Head(stack).exp.receiver.name_chain)
              method == Head(stack).exp.method_name
              methods(m) ==
                  {g \in Range(FunctionsOf(m.module_def)) :
                      /\ g.name = method
                      /\ \/ m.module_def.name = T
                         \/ function_operates_on_struct(g, T)}
              targets ==
                  UNION {{<<m.module_def.name, generate_function_signature(f)>> :
                             f \in methods(m)} : m \in ProjectModules}
          IN  IF targets # {}
              THEN \E r \in RecordsAfter : <<r.module, r.function>> \in targets
              ELSE calls' = calls]_vars

(***************************************************************************)
(* FunctionParser: search, signature, parameters and source text           *)
(***************************************************************************)

\* Result<T, AnalyzerError>
Ok(value) == [kind |-> "Ok", value |-> value]
Err(error) == [kind |-> "Err", error |-> error]

\* the first error of a sequence of results, if any
first_error(results) ==
    LET failed == {i \in 1..Len(results) : results[i].kind = "Err"}
    IN  IF failed = {} THEN None
        ELSE results[CHOOSE i \in failed : \A j \in failed : i <= j]

\* AnalyzerError variants and their Display text
AnalysisError(message) == [kind |-> "AnalysisError", message |-> message]
InvalidProjectPath(path_buf) == [kind |-> "InvalidProjectPath", path |-> path_buf]
FunctionNotFound(name) == [kind |-> "FunctionNotFound", message |-> name]
IoError(message) == [kind |-> "IoError", message |-> message]

error_to_string(error) ==
    CASE error.kind = "AnalysisError" -> "Analysis error: " \o error.message
      [] error.kind = "FunctionNotFound" ->
             "Function not found: " \o error.message
      [] error.kind = "IoError" -> "IO error: " \o error.message

\* Loc: the byte offsets of a declaration in its file
Loc(start, end) == [start |-> start, end |-> end]

\* a type parameter with its ability constraints
TypeParameter(name, constraints) == [name |-> name, constraints |-> constraints]

\* a Function with the fields FunctionParser reads besides those of the
\* call analysis: visibility ("Public", "Friend", "Package" or "Internal"),
\* entry marker, type parameters and location
Declared(f, visibility, entry, type_parameters, loc) ==
    [name |-> f.name,
     body |-> f.body,
     signature |-> [parameters |-> f.signature.parameters,
                    return_type |-> f.signature.return_type,
                    type_parameters |-> type_parameters],
     visibility |-> visibility,
     entry |-> entry,
     loc |-> loc]

FunctionDef(f, info, location) ==
    [function |-> f, module_info |-> info, location |-> location]

search_in_module(module_def, name, file_path) ==
    LET fs == SelectSeq(FunctionsOf(module_def), LAMBDA f : f.name = name)
    IN  [i \in 1..Len(fs) |->
            FunctionDef(fs[i], ModuleInfo(module_def.name, file_path), fs[i].loc)]

search_in_definitions(definitions, name, file_path) ==
    Flatten([i \in 1..Len(definitions) |->
                IF definitions[i].kind = "Module"
                THEN search_in_module(definitions[i], name, file_path)
                ELSE <<>>])

search_in_files(file_list, name) ==
    Flatten([i \in 1..Len(file_list) |->
                search_in_definitions(file_list[i].definitions, name,
                                      file_list[i].file_path)])

\* seeded fault: the test sources of a package searched before its sources
find_functions_tests_first(name) ==
    Flatten([i \in 1..Len(project) |->
                search_in_files(project[i].tests, name)
                    \o search_in_files(project[i].sources, name)])

find_functions(name) ==
    Flatten([i \in 1..Len(project) |->
                search_in_files(project[i].sources, name)
                    \o search_in_files(project[i].tests, name)])

ability_to_string(ability) ==
    CASE ability = "Copy" -> "copy"
      [] ability = "Drop" -> "drop"
      [] ability = "Store" -> "store"
      [] ability = "Key" -> "key"

format_type_parameter(type_parameter) ==
    type_parameter.name
        \o (IF type_parameter.constraints = <<>> THEN ""
            ELSE ": " \o join([j \in 1..Len(type_parameter.constraints) |->
                                  ability_to_string(type_parameter.constraints[j])],
                              " + "))

format_parameters(parameters) ==
    join([i \in 1..Len(parameters) |->
             parameters[i].name \o ": " \o type_to_string(parameters[i].type)],
         ", ")

\* seeded fault: the entry marker written before the visibility
extract_function_signature_entry_first(func_def) ==
    LET f == func_def.function
        type_parameters == f.signature.type_parameters
    IN  (IF f.entry THEN "entry " ELSE "")
          \o (CASE f.visibility = "Public" -> "public "
                 [] f.visibility = "Friend" -> "public(friend) "
                 [] f.visibility = "Package" -> "public(package) "
                 [] f.visibility = "Internal" -> "")
          \o (IF f.body.kind = "Native" THEN "native " ELSE "")
          \o "fun "
          \o f.name
          \o (IF type_parameters = <<>> THEN ""
              ELSE "<" \o join([i \in 1..Len(type_parameters) |->
                                   format_type_parameter(type_parameters[i])],
                               ", ") \o ">")
          \o "(" \o format_parameters(f.signature.parameters) \o ")"
          \o ": " \o type_to_string(f.signature.return_type)

extract_function_signature(func_def) ==
    LET f == func_def.function
        type_parameters == f.signature.type_parameters
    IN  (CASE f.visibility = "Public" -> "public "
           [] f.visibility = "Friend" -> "public(friend) "
           [] f.visibility = "Package" -> "public(package) "
           [] f.visibility = "Internal" -> "")
          \o (IF f.entry THEN "entry " ELSE "")
          \o (IF f.body.kind = "Native" THEN "native " ELSE "")
          \o "fun "
          \o f.name
          \o (IF type_parameters = <<>> THEN ""
              ELSE "<" \o join([i \in 1..Len(type_parameters) |->
                                   format_type_parameter(type_parameters[i])],
                               ", ") \o ">")
          \o "(" \o format_parameters(f.signature.parameters) \o ")"
          \o ": " \o type_to_string(f.signature.return_type)

\* Parameter { name, type_ }
Parameter(name, type_) == [name |-> name, type_ |-> type_]

extract_parameters(func_def) ==
    LET parameters == func_def.function.signature.parameters
    IN  [i \in 1..Len(parameters) |->
            Parameter(parameters[i].name, type_to_string(parameters[i].type))]

\* fs::read_to_string: the text of a readable file, an IO error otherwise
read_to_string(file_path) ==
    IF file_path \in DOMAIN file_system /\ file_system[file_path].readable
    THEN Ok(file_system[file_path].content)
    ELSE Err(IoError("No such file or directory (os error 2)"))

\* the positions of the line feeds of a text
line_feeds(content) ==
    {i \in 1..Len(content) : SubSeq(content, i, i) = "\n"}

\* the loop of get_line_number_from_offset: one more than the number of line
\* feeds among the characters before the offset, the whole text when the
\* offset lies beyond it (one byte per character: the texts are ASCII)
get_line_number_from_offset(content, offset) ==
    Ok(1 + Cardinality({i \in line_feeds(content) : i - 1 < offset}))

\* a line's text without the carriage return of a "\r\n" ending
strip_carriage_return(line) ==
    IF line # "" /\ SubSeq(line, Len(line), Len(line)) = "\r"
    THEN SubSeq(line, 1, Len(line) - 1) ELSE line

\* str::lines(): the text cut at its line feeds; a final line feed opens no
\* further line
lines(content) ==
    LET feeds == line_feeds(content)
        feed(k) == CHOOSE i \in feeds : Cardinality({j \in feeds : j < i}) = k - 1
        count == IF content # "" /\ Len(content) \notin feeds
                 THEN Cardinality(feeds) + 1 ELSE Cardinality(feeds)
        first(k) == IF k = 1 THEN 1 ELSE feed(k - 1) + 1
        last(k) == IF k <= Cardinality(feeds) THEN feed(k) - 1 ELSE Len(content)
    IN  [k \in 1..count |->
            strip_carriage_return(SubSeq(content, first(k), last(k)))]

Whitespace == {" ", "\t", "\r", "\n"}

RECURSIVE trim_start(_)
trim_start(s) ==
    IF s # "" /\ SubSeq(s, 1, 1) \in Whitespace
    THEN trim_start(SubSeq(s, 2, Len(s))) ELSE s

RECURSIVE trim_end(_)
trim_end(s) ==
    IF s # "" /\ SubSeq(s, Len(s), Len(s)) \in Whitespace
    THEN trim_end(SubSeq(s, 1, Len(s) - 1)) ELSE s

\* seeded fault: no trimming
trim_nothing(s) == s

trim(s) == trim_end(trim_start(s))

RECURSIVE doc_start_from_comments_only(_, _)
\* seeded fault: empty lines end the backward search
doc_start_from_comments_only(file_lines, doc_start) ==
    IF doc_start = 0 THEN 0
    ELSE LET line == trim(file_lines[doc_start])
         IN  IF \/ starts_with(line, "///")
                \/ starts_with(line, "/**")
                \/ starts_with(line, "*")
             THEN doc_start_from_comments_only(file_lines, doc_start - 1)
             ELSE doc_start

RECURSIVE doc_start_from(_, _)
\* the backwards search for documentation comments: the number of lines that
\* stay above the extracted text (doc_start when the loop ends)
doc_start_from(file_lines, doc_start) ==
    IF doc_start = 0 THEN 0
    ELSE LET line == trim(file_lines[doc_start])
         IN  IF \/ starts_with(line, "///")
                \/ starts_with(line, "/**")
                \/ starts_with(line, "*")
                \/ line = ""
             THEN doc_start_from(file_lines, doc_start - 1)
             ELSE doc_start

extract_function_with_docs(file_content, start_line, end_line) ==
    LET file_lines == lines(file_content)
        actual_start_line == doc_start_from(file_lines, start_line - 1) + 1
    IN  IF \/ start_line = 0
           \/ start_line > Len(file_lines)
           \/ end_line > Len(file_lines)
        THEN Err(AnalysisError("Invalid line numbers for function location"))
        ELSE Ok([actual_start_line |-> actual_start_line,
                 source_lines |-> SubSeq(file_lines, actual_start_line, end_line)])

extract_source_code(func_def) ==
    LET file_content == read_to_string(func_def.module_info.file_path)
        start_line == get_line_number_from_offset(file_content.value,
                                                  func_def.location.start)
        end_line == get_line_number_from_offset(file_content.value,
                                                func_def.location.end)
        extracted == extract_function_with_docs(file_content.value,
                                                start_line.value, end_line.value)
    IN  IF file_content.kind = "Err" THEN file_content
        ELSE IF extracted.kind = "Err" THEN extracted
        ELSE Ok(join(extracted.value.source_lines, "\n"))

(***************************************************************************)
(* ProjectLoader: validation of the project directory                      *)
(*                                                                         *)
(* What a path names on the disk: nothing, a file with a content, or a     *)
(* directory with its entries (a sequence of names and what they name).    *)
(***************************************************************************)

Nothing == [kind |-> "nothing"]
RegularFile(readable, content) ==
    [kind |-> "file", readable |-> readable, content |-> content]
Directory(readable, entries) ==
    [kind |-> "dir", readable |-> readable, entries |-> entries]
DirEntry(name, named) == [name |-> name, named |-> named]

\* Path::join followed by a look at the disk: what the name names in a
\* directory
path_join(dir, name) ==
    LET found == {i \in 1..Len(dir.entries) : dir.entries[i].name = name}
    IN  IF found = {} THEN Nothing
        ELSE dir.entries[CHOOSE i \in found : TRUE].named

path_exists(named) == named.kind # "nothing"
path_is_dir(named) == named.kind = "dir"
path_is_file(named) == named.kind = "file"

PermissionDenied == "Permission denied (os error 13)"

\* fs::read_dir and fs::read_to_string on what a path names
read_dir(named) ==
    IF named.readable THEN Ok(named.entries) ELSE Err(PermissionDenied)

read_file(named) ==
    IF named.readable THEN Ok(named.content) ELSE Err(PermissionDenied)

ends_with(s, suffix) ==
    /\ Len(s) >= Len(suffix)
    /\ SubSeq(s, Len(s) - Len(suffix) + 1, Len(s)) = suffix

RECURSIVE walk_dir(_, _)
\* walkdir::WalkDir: the files below a directory, each with its path
walk_dir(dir, dir_path) ==
    Flatten([i \in 1..Len(dir.entries) |->
        LET entry == dir.entries[i]
            entry_path == dir_path \o "/" \o entry.name
        IN  IF path_is_dir(entry.named) /\ entry.named.readable
            THEN walk_dir(entry.named, entry_path)
            ELSE IF path_is_file(entry.named)
            THEN <<[file_name |-> entry.name, path |-> entry_path,
                    named |-> entry.named]>>
            ELSE <<>>])

validate_move_files_in_directory(dir, dir_path, dir_name) ==
    LET walked == walk_dir(dir, dir_path)
        validation_errors ==
            Flatten([i \in 1..Len(walked) |->
                LET entry == walked[i]
                    content == read_file(entry.named)
                IN  IF ~(ends_with(entry.file_name, ".move")
                           /\ ~starts_with(entry.file_name, "."))
                    THEN <<>>
                    ELSE IF content.kind = "Err"
                    THEN <<"Cannot read Move file " \o entry.path \o ": "
                             \o content.error>>
                    ELSE IF trim(content.value) = ""
                    THEN <<"Move file is empty: " \o entry.path>>
                    ELSE <<>>])
    IN  IF validation_errors # <<>>
        THEN Err(AnalysisError("Validation errors in " \o dir_name
                                   \o " directory: "
                                   \o join(validation_errors, "; ")))
        ELSE Ok(<<>>)

\* the checks of validate_directory_structure on one optional directory
validate_optional_directory(project_dir, project_path, dir_name) ==
    LET named == path_join(project_dir, dir_name)
        dir_path == project_path \o "/" \o dir_name
    IN  IF ~path_exists(named) THEN Ok(<<>>)
        ELSE IF ~path_is_dir(named)
        THEN Err(AnalysisError(dir_name
                                   \o " path exists but is not a directory: "
                                   \o dir_path))
        ELSE IF read_dir(named).kind = "Err"
        THEN Err(AnalysisError("Cannot read " \o dir_name \o " directory: "
                                   \o read_dir(named).error))
        ELSE IF dir_name = "sources"
        THEN validate_move_files_in_directory(named, dir_path, dir_name)
        ELSE Ok(<<>>)

validate_directory_structure(project_dir, project_path) ==
    LET checks == [i \in 1..3 |->
                      validate_optional_directory(
                          project_dir, project_path,
                          <<"sources", "tests", "scripts">>[i])]
        failed == first_error(checks)
    IN  IF failed # None THEN failed ELSE Ok(<<>>)

\* seeded fault: the directories are checked before Move.toml
validate_move_project_directories_first(named, project_path) ==
    LET move_toml == path_join(named, "Move.toml")
        move_toml_path == project_path \o "/Move.toml"
    IN  IF ~path_exists(named) THEN Err(InvalidProjectPath(project_path))
        ELSE IF ~path_is_dir(named)
        THEN Err(AnalysisError("Project path is not a directory: "
                                   \o project_path))
        ELSE IF read_dir(named).kind = "Err"
        THEN Err(AnalysisError("Cannot read project directory "
                                   \o project_path \o ": "
                                   \o read_dir(named).error))
        ELSE IF validate_directory_structure(named, project_path).kind = "Err"
        THEN validate_directory_structure(named, project_path)
        ELSE IF ~path_exists(move_toml)
        THEN Err(AnalysisError("Move.toml file not found in project directory: "
                                   \o project_path))
        ELSE IF ~path_is_file(move_toml)
        THEN Err(AnalysisError("Move.toml exists but is not a file: "
                                   \o move_toml_path))
        ELSE IF read_file(move_toml).kind = "Err"
        THEN Err(AnalysisError("Cannot read Move.toml file: "
                                   \o read_file(move_toml).error))
        ELSE IF trim(read_file(move_toml).value) = ""
        THEN Err(AnalysisError("Move.toml file is empty"))
        ELSE Ok(<<>>)

validate_move_project(named, project_path) ==
    LET move_toml == path_join(named, "Move.toml")
        move_toml_path == project_path \o "/Move.toml"
    IN  IF ~path_exists(named) THEN Err(InvalidProjectPath(project_path))
        ELSE IF ~path_is_dir(named)
        THEN Err(AnalysisError("Project path is not a directory: "
                                   \o project_path))
        ELSE IF read_dir(named).kind = "Err"
        THEN Err(AnalysisError("Cannot read project directory "
                                   \o project_path \o ": "
                                   \o read_dir(named).error))
        ELSE IF ~path_exists(move_toml)
        THEN Err(AnalysisError("Move.toml file not found in project directory: "
                                   \o project_path))
        ELSE IF ~path_is_file(move_toml)
        THEN Err(AnalysisError("Move.toml exists but is not a file: "
                                   \o move_toml_path))
        ELSE IF read_file(move_toml).kind = "Err"
        THEN Err(AnalysisError("Cannot read Move.toml file: "
                                   \o read_file(move_toml).error))
        ELSE IF trim(read_file(move_toml).value) = ""
        THEN Err(AnalysisError("Move.toml file is empty"))
        ELSE validate_directory_structure(named, project_path)

(***************************************************************************)
(* FunctionAnalyzer: the coordinator                                       *)
(***************************************************************************)

LocationInfo(file, start_line, end_line) ==
    [file |-> file, start_line |-> start_line, end_line |-> end_line]

\* u32 values, kept at their width as two 16-bit halves: the value is
\* hi * 2^16 + lo
HalfValues == 2^16

U32(hi, lo) == [hi |-> hi, lo |-> lo]

u32_ge(a, b) == a.hi > b.hi \/ (a.hi = b.hi /\ a.lo >= b.lo)

\* a - b for a >= b
u32_sub(a, b) ==
    LET borrow == IF a.lo < b.lo THEN 1 ELSE 0
    IN  U32(a.hi - b.hi - borrow, (a.lo - b.lo + HalfValues) % HalfValues)

\* a + 1 in 32 bits, with the carry out of them
u32_add_one(a) ==
    LET lo_carry == IF a.lo + 1 = HalfValues THEN 1 ELSE 0
    IN  [value |-> U32((a.hi + lo_carry) % HalfValues, (a.lo + 1) % HalfValues),
         overflow |-> a.hi + lo_carry = HalfValues]

Panic(message) == [kind |-> "Panic", message |-> message]

\* LocationInfo::line_count; an addition that leaves 32 bits panics in a
\* build with overflow checks and wraps around in one without
line_count(self, overflow_checks) ==
    IF u32_ge(self.end_line, self.start_line)
    THEN LET sum == u32_add_one(u32_sub(self.end_line, self.start_line))
         IN  IF sum.overflow /\ overflow_checks
             THEN Panic("attempt to add with overflow")
             ELSE sum.value
    ELSE U32(0, 0)

FunctionAnalysis(contract, signature, source, location, parameters, fn_calls) ==
    [contract |-> contract, function |-> signature, source |-> source,
     location |-> location, parameter |-> parameters, calls |-> fn_calls]

(***************************************************************************)
(* JSON: the derived Serialize / Deserialize of the output records          *)
(***************************************************************************)

\* AnalyzerError::JsonError
JsonError(message) == [kind |-> "JsonError", message |-> message]

\* a PathBuf: the bytes of an OS string, which need not be valid UTF-8
PathBuf(bytes) == [bytes |-> bytes]

\* the characters of the one-byte UTF-8 encodings used in paths
Utf8Char ==
    (34 :> "\"") @@ (46 :> ".") @@ (47 :> "/") @@ (92 :> "\\") @@ (95 :> "_")
        @@ (97 :> "a") @@ (99 :> "c") @@ (100 :> "d") @@ (101 :> "e")
        @@ (103 :> "g") @@ (107 :> "k") @@ (108 :> "l") @@ (109 :> "m")
        @@ (111 :> "o") @@ (112 :> "p") @@ (114 :> "r") @@ (115 :> "s")
        @@ (116 :> "t") @@ (117 :> "u") @@ (118 :> "v") @@ (121 :> "y")

RECURSIVE path_to_str(_)
\* Path::to_str: the text of the path, if its bytes are valid UTF-8
path_to_str(bytes) ==
    IF bytes = <<>> THEN Ok("")
    ELSE LET rest == path_to_str(Tail(bytes))
         IN  IF Head(bytes) \in DOMAIN Utf8Char /\ rest.kind = "Ok"
             THEN Ok(Utf8Char[Head(bytes)] \o rest.value)
             ELSE Err(JsonError("path contains invalid UTF-8 characters"))

\* PathBuf::from(text)
path_from_str(text) ==
    PathBuf([i \in 1..Len(text) |->
                CHOOSE b \in DOMAIN Utf8Char : Utf8Char[b] = SubSeq(text, i, i)])

\* seeded fault: a backslash is written as it is
RECURSIVE json_escape_without_backslash(_)
json_escape_without_backslash(text) ==
    IF text = "" THEN ""
    ELSE IF Len(text) = 1
    THEN CASE text = "\"" -> "\\\""
           [] text = "\n" -> "\\n"
           [] text = "\t" -> "\\t"
           [] OTHER -> text
    ELSE LET half == Len(text) \div 2
         IN  json_escape_without_backslash(SubSeq(text, 1, half))
               \o json_escape_without_backslash(SubSeq(text, half + 1, Len(text)))

RECURSIVE json_escape(_)
\* the characters of a JSON string literal for a text: each character is
\* escaped by itself
json_escape(text) ==
    IF text = "" THEN ""
    ELSE IF Len(text) = 1
    THEN CASE text = "\"" -> "\\\""
           [] text = "\\" -> "\\\\"
           [] text = "\n" -> "\\n"
           [] text = "\t" -> "\\t"
           [] OTHER -> text
    ELSE LET half == Len(text) \div 2
         IN  json_escape(SubSeq(text, 1, half))
               \o json_escape(SubSeq(text, half + 1, Len(text)))

RECURSIVE json_unescape(_)
\* the text of the characters of a JSON string literal
json_unescape(literal) ==
    IF literal = "" THEN Ok("")
    ELSE LET c == SubSeq(literal, 1, 1)
         IN  IF c = "\"" THEN Err(JsonError("expected , or } after the string"))
             ELSE IF c \in {"\n", "\t"}
             THEN Err(JsonError("control character found while parsing a string"))
             ELSE IF c # "\\"
             THEN LET rest == json_unescape(SubSeq(literal, 2, Len(literal)))
                  IN  IF rest.kind = "Ok" THEN Ok(c \o rest.value) ELSE rest
             ELSE IF Len(literal) < 2
             THEN Err(JsonError("EOF while parsing a string"))
             ELSE LET e == SubSeq(literal, 2, 2)
                      rest == json_unescape(SubSeq(literal, 3, Len(literal)))
                  IN  IF e \notin {"\"", "\\", "n", "t"}
                      THEN Err(JsonError("invalid escape"))
                      ELSE IF rest.kind = "Err" THEN rest
                      ELSE Ok((CASE e = "\"" -> "\""
                                 [] e = "\\" -> "\\"
                                 [] e = "n" -> "\n"
                                 [] e = "t" -> "\t") \o rest.value)

Digits == <<"0", "1", "2", "3", "4", "5", "6", "7", "8", "9">>

RECURSIVE format_u32(_)
\* the decimal digits of a number
format_u32(n) ==
    IF n < 10 THEN Digits[n + 1]
    ELSE format_u32(n \div 10) \o Digits[(n % 10) + 1]

RECURSIVE parse_u32(_)
\* the number of decimal digits
parse_u32(digits) ==
    LET last == CHOOSE d \in 0..9 :
                    Digits[d + 1] = SubSeq(digits, Len(digits), Len(digits))
    IN  IF Len(digits) = 1 THEN last
        ELSE 10 * parse_u32(SubSeq(digits, 1, Len(digits) - 1)) + last

\* JSON values: literals hold their characters as written
JsonString(text) == [kind |-> "string", literal |-> json_escape(text)]
JsonNumber(n) == [kind |-> "number", literal |-> format_u32(n)]
JsonArray(items) == [kind |-> "array", items |-> items]
JsonObject(members) == [kind |-> "object", members |-> members]
Member(key, value) == [key |-> key, value |-> value]

\* the keys of an object, in the order written
Keys(object) == [i \in 1..Len(object.members) |-> object.members[i].key]

\* the value of a field of an object
Field(object, key) ==
    LET found == {i \in 1..Len(object.members) : object.members[i].key = key}
    IN  IF found = {} THEN Err(JsonError("missing field " \o key))
        ELSE Ok(object.members[CHOOSE i \in found : TRUE].value)

\* derived Serialize of Parameter, FunctionCall, LocationInfo
parameter_to_json(parameter) ==
    JsonObject(<<Member("name", JsonString(parameter.name)),
                 Member("type", JsonString(parameter.type_))>>)

function_call_to_json(function_call) ==
    JsonObject(<<Member("file",
                        JsonString(path_to_str(function_call.file.bytes).value)),
                 Member("function", JsonString(function_call.function)),
                 Member("module", JsonString(function_call.module))>>)

location_to_json(location) ==
    JsonObject(<<Member("file",
                        JsonString(path_to_str(location.file.bytes).value)),
                 Member("start_line", JsonNumber(location.start_line)),
                 Member("end_line", JsonNumber(location.end_line))>>)

\* FunctionAnalysis::to_json
to_json(self) ==
    LET paths == <<self.location.file>>
                     \o [i \in 1..Len(self.calls) |-> self.calls[i].file]
    IN  IF \E i \in 1..Len(paths) : path_to_str(paths[i].bytes).kind = "Err"
        THEN Err(JsonError("path contains invalid UTF-8 characters"))
        ELSE Ok(JsonObject(
                 <<Member("contract", JsonString(self.contract)),
                   Member("function", JsonString(self.function)),
                   Member("source", JsonString(self.source)),
                   Member("location", location_to_json(self.location)),
                   Member("parameter",
                          JsonArray([i \in 1..Len(self.parameter) |->
                                        parameter_to_json(self.parameter[i])])),
                   Member("calls",
                          JsonArray([i \in 1..Len(self.calls) |->
                                        function_call_to_json(self.calls[i])]))>>))

\* the text of a string field of an object
string_field(object, key) ==
    LET field == Field(object, key)
    IN  IF field.kind = "Err" THEN field
        ELSE IF field.value.kind # "string"
        THEN Err(JsonError("invalid type, expected a string"))
        ELSE json_unescape(field.value.literal)

\* derived Deserialize of Parameter, FunctionCall, LocationInfo
parameter_from_json(json) ==
    LET name == string_field(json, "name")
        type_ == string_field(json, "type")
    IN  IF name.kind = "Err" THEN name
        ELSE IF type_.kind = "Err" THEN type_
        ELSE Ok(Parameter(name.value, type_.value))

function_call_from_json(json) ==
    LET file == string_field(json, "file")
        fn == string_field(json, "function")
        module == string_field(json, "module")
    IN  IF file.kind = "Err" THEN file
        ELSE IF fn.kind = "Err" THEN fn
        ELSE IF module.kind = "Err" THEN module
        ELSE Ok(FunctionCall(path_from_str(file.value), fn.value, module.value))

location_from_json(json) ==
    LET file == string_field(json, "file")
        start_line == Field(json, "start_line")
        end_line == Field(json, "end_line")
    IN  IF file.kind = "Err" THEN file
        ELSE IF start_line.kind = "Err" THEN start_line
        ELSE IF end_line.kind = "Err" THEN end_line
        ELSE Ok(LocationInfo(path_from_str(file.value),
                             parse_u32(start_line.value.literal),
                             parse_u32(end_line.value.literal)))

\* FunctionAnalysis::from_json
from_json(json) ==
    LET contract == string_field(json, "contract")
        fn == string_field(json, "function")
        source == string_field(json, "source")
        location == Field(json, "location")
        parameters == Field(json, "parameter")
        fn_calls == Field(json, "calls")
        missing == first_error(<<contract, fn, source, location, parameters,
                                 fn_calls>>)
    IN  IF missing # None THEN missing
        ELSE LET location_info == location_from_json(location.value)
                 parameter_list ==
                     [i \in 1..Len(parameters.value.items) |->
                         parameter_from_json(parameters.value.items[i])]
                 call_list ==
                     [i \in 1..Len(fn_calls.value.items) |->
                         function_call_from_json(fn_calls.value.items[i])]
                 invalid == first_error(<<location_info>> \o parameter_list
                                            \o call_list)
             IN  IF invalid # None THEN invalid
                 ELSE Ok(FunctionAnalysis(
                          contract.value, fn.value, source.value,
                          location_info.value,
                          [i \in 1..Len(parameter_list) |-> parameter_list[i].value],
                          [i \in 1..Len(call_list) |-> call_list[i].value]))

\* a record of the analysis, its file paths (texts in the analysis) as the
\* PathBuf values that are serialized
with_path_bufs(analysis) ==
    [analysis EXCEPT
        !.location.file = path_from_str(@),
        !.calls = [i \in 1..Len(@) |->
                      [@[i] EXCEPT !.file = path_from_str(@)]]]

\* output_results of the command-line tool: serde_json::to_string_pretty of
\* the list of records
output_results(results) ==
    LET jsons == [i \in 1..Len(results) |-> to_json(with_path_bufs(results[i]))]
        failed == first_error(jsons)
    IN  IF failed # None THEN failed
        ELSE Ok(JsonArray([i \in 1..Len(jsons) |-> jsons[i].value]))

create_location_info(function_def) ==
    LET file_path == function_def.module_info.file_path
        file_content == read_to_string(file_path)
        start_line == get_line_number_from_offset(file_content.value,
                                                  function_def.location.start)
        end_line == get_line_number_from_offset(file_content.value,
                                                function_def.location.end)
    IN  IF file_content.kind = "Err" THEN file_content
        ELSE Ok(LocationInfo(file_path, start_line.value, end_line.value))

\* seeded fault: no degraded record, the error is passed on
create_partial_analysis_failing(function_def, error) == Err(error)

create_partial_analysis(function_def, error) ==
    LET contract == function_def.module_info.name
        name == function_def.function.name
    IN  Ok(FunctionAnalysis(
               contract,
               name \o "(...)",
               "// Error analyzing function: " \o error_to_string(error)
                   \o "\n// Function: " \o name
                   \o "\n// Module: " \o contract,
               LocationInfo(function_def.module_info.file_path, 1, 1),
               <<>>,
               <<>>))

\* analyze_single_function up to the call analysis: the error it returns
\* before reaching it, if any
single_function_error(function_def) ==
    LET source_code == extract_source_code(function_def)
        location_info == create_location_info(function_def)
    IN  IF source_code.kind = "Err"
        THEN Err(AnalysisError("Failed to extract source code: "
                                   \o error_to_string(source_code.error)))
        ELSE IF location_info.kind = "Err" THEN location_info
        ELSE None

\* analyze_function: validation and search
AnalyzeFunction ==
    /\ pc = "analyze_function"
    /\ IF trim(requested_name) = ""
       THEN /\ result' = Err(AnalysisError("Function name cannot be empty"))
            /\ pc' = "returned"
            /\ UNCHANGED <<function_defs, def_index>>
       ELSE IF find_functions(requested_name) = <<>>
       THEN /\ result' = Err(FunctionNotFound(requested_name))
            /\ pc' = "returned"
            /\ UNCHANGED <<function_defs, def_index>>
       ELSE /\ function_defs' = find_functions(requested_name)
            /\ def_index' = 1
            /\ pc' = "analyze_single_function"
            /\ UNCHANGED result
    /\ analysis_results' = <<>>
    /\ partial_errors' = <<>>
    /\ UNCHANGED <<project, module_info, function, stack, calls, visited_calls,
                   requested_name, file_system>>
    /\ UNCHANGED harness

\* the loop body of analyze_function: analyze_single_function up to its call
\* analysis, or the recovery arm when it fails before
AnalyzeSingleFunction ==
    /\ pc = "analyze_single_function"
    /\ def_index <= Len(function_defs)
    /\ LET function_def == function_defs[def_index]
           e == single_function_error(function_def)
           partial_analysis == create_partial_analysis(function_def, e.error)
       IN  IF e # None
           THEN /\ partial_errors' =
                       Append(partial_errors,
                              "Error analyzing function in "
                                  \o function_def.module_info.file_path
                                  \o ": " \o error_to_string(e.error))
                /\ analysis_results' =
                       IF partial_analysis.kind = "Ok"
                       THEN Append(analysis_results, partial_analysis.value)
                       ELSE analysis_results
                /\ def_index' = def_index + 1
                /\ UNCHANGED <<function, module_info, pc>>
           ELSE /\ function' = function_def.function
                /\ module_info' = function_def.module_info
                /\ pc' = "analyze_calls"
                /\ UNCHANGED <<partial_errors, analysis_results, def_index>>
    /\ UNCHANGED <<project, stack, calls, visited_calls, requested_name,
                   file_system, function_defs, result>>
    /\ UNCHANGED harness

\* analyze_single_function after its call analysis: the complete record
CompleteSingleFunction ==
    /\ pc = "done"
    /\ def_index \in 1..Len(function_defs)
    /\ LET function_def == function_defs[def_index]
       IN  analysis_results' =
               Append(analysis_results,
                      FunctionAnalysis(
                          function_def.module_info.name,
                          extract_function_signature(function_def),
                          extract_source_code(function_def).value,
                          create_location_info(function_def).value,
                          extract_parameters(function_def),
                          calls))
    /\ def_index' = def_index + 1
    /\ pc' = "analyze_single_function"
    /\ UNCHANGED <<project, module_info, function, stack, calls, visited_calls,
                   requested_name, file_system, function_defs, partial_errors,
                   result>>
    /\ UNCHANGED harness

\* analyze_function after the loop
ReturnAnalysis ==
    /\ pc = "analyze_single_function"
    /\ def_index > Len(function_defs)
    /\ result' =
           IF analysis_results # <<>>
           THEN Ok(analysis_results)
           ELSE Err(AnalysisError(
                        "Failed to analyze any instances of function '"
                            \o requested_name \o "': "
                            \o join(partial_errors, "; ")))
    /\ pc' = "returned"
    /\ UNCHANGED <<project, module_info, function, stack, calls, visited_calls,
                   requested_name, file_system, function_defs, def_index,
                   analysis_results, partial_errors>>
    /\ UNCHANGED harness

(***************************************************************************)
(* Inputs of analyze_function: declarations, files on disk, requested      *)
(* names                                                                   *)
(***************************************************************************)

\* nesting depth of the generated parameter types
MaxTypeDepth == 2

Generic(name, types) == TApply(Single(PathEntry(name, TyArgs(types))))
QualifiedType(root, names) ==
    TApply(Path(root, [i \in 1..Len(names) |-> Entry(names[i])]))

BaseTypes ==
    {U64, Named("bool"), OrderT, Named("T"),
     QualifiedType(LeadingName("market"), <<"Order">>),
     QualifiedType(LeadingName("sui"), <<"coin", "Coin">>),
     QualifiedType(AnonymousAddress(Addr(2)), <<"coin", "Coin">>),
     QualifiedType(GlobalAddress("std"), <<"string", "String">>),
     TUnit, TUnresolvedError}

RECURSIVE Types(_)
Types(d) ==
    IF d = 0 THEN BaseTypes
    ELSE Types(d - 1)
           \cup {Generic("vector", <<t>>) : t \in Types(d - 1)}
           \cup {Generic("Box", <<t>>) : t \in Types(d - 1)}
           \cup {Generic("Table", <<U64, t>>) : t \in Types(d - 1)}
           \cup {TApply(Path(LeadingName("option"),
                             <<PathEntry("Option", TyArgs(<<t>>))>>)) :
                     t \in Types(d - 1)}
           \cup {TRef(mut, t) : mut \in BOOLEAN, t \in Types(d - 1)}
           \cup {TFun(<<t>>, U64) : t \in Types(d - 1)}
           \cup {TFun(<<>>, t) : t \in Types(d - 1)}
           \cup {TMultiple(<<t, U64>>) : t \in Types(d - 1)}

\* the lines of the files as they were parsed
MarketLines ==
    <<"module market {",
      "    struct Order has drop { id: u64 }",
      "",
      "    /// Scenario A",
      "    fun test(x: u64, y: bool): u64 { x }",
      "    public entry fun transfer(o: Order) {",
      "        helper();",
      "        o.check();",
      "    }",
      "    fun helper() {}",
      "    fun probe() {}",
      "}">>

LegacyLines ==
    <<"address 0x1 {",
      "module legacy {",
      "    fun ghost() {}",
      "    fun transfer() {}",
      "}",
      "}",
      "module util {",
      "    public fun Transfer() {}",
      "    public(package) fun transfer(n: u64): bool { false }",
      "}">>

MarketTestsLines ==
    <<"module market_tests {",
      "    /** moves an order */",
      "    fun transfer() {}",
      "    fun test() {}",
      "}">>

DepMarketLines ==
    <<"module market {",
      "    public(friend) native fun transfer<T: store>(v: vector<T>);",
      "}">>

FileText(file_lines) == join(file_lines, "\n") \o "\n"

RECURSIVE LineStart(_, _)
\* the byte offset at which line k of the text begins
LineStart(file_lines, k) ==
    IF k = 1 THEN 0
    ELSE LineStart(file_lines, k - 1) + Len(file_lines[k - 1]) + 1

\* the location of a declaration that spans lines first..last of its file,
\* after the indentation of its first line
Span(file_lines, first, last) ==
    Loc(LineStart(file_lines, first)
            + (Len(file_lines[first]) - Len(trim_start(file_lines[first]))),
        LineStart(file_lines, last) + Len(file_lines[last]))

NoTypeParameters == <<>>

CallsHelper ==
    Defined(Sequence(<<Seq_(Direct("helper", <<>>)),
                       Seq_(DotCall(Var("o"), "check", <<>>))>>, NoExp))

\* fun test(x: u64, y: bool): u64 { x }
ScenarioA ==
    Declared(Function("test", <<Param("x", U64), Param("y", Named("bool"))>>,
                      U64, Defined(Sequence(<<>>, Var("x")))),
             "Internal", FALSE, NoTypeParameters, Span(MarketLines, 5, 5))

DefaultProbe ==
    Declared(Function("probe", <<>>, TUnit, EmptyBody),
             "Internal", FALSE, NoTypeParameters, Span(MarketLines, 11, 11))

AnalyzerMarketModule(probe) ==
    ModuleDefinition("market",
        <<MemberStruct("Order"),
          MemberFunction(ScenarioA),
          MemberFunction(
              Declared(Function("transfer", <<Param("o", OrderT)>>, TUnit,
                                CallsHelper),
                       "Public", TRUE, NoTypeParameters, Span(MarketLines, 6, 9))),
          MemberFunction(
              Declared(Function("helper", <<>>, TUnit, EmptyBody),
                       "Internal", FALSE, NoTypeParameters,
                       Span(MarketLines, 10, 10))),
          MemberFunction(probe)>>)

LegacyModule ==
    ModuleDefinition("legacy",
        <<MemberFunction(
              Declared(Function("ghost", <<>>, TUnit, EmptyBody),
                       "Internal", FALSE, NoTypeParameters,
                       Span(LegacyLines, 3, 3))),
          MemberFunction(
              Declared(Function("transfer", <<>>, TUnit, EmptyBody),
                       "Internal", FALSE, NoTypeParameters,
                       Span(LegacyLines, 4, 4)))>>)

AnalyzerUtilModule ==
    ModuleDefinition("util",
        <<MemberFunction(
              Declared(Function("Transfer", <<>>, TUnit, EmptyBody),
                       "Public", FALSE, NoTypeParameters,
                       Span(LegacyLines, 8, 8))),
          MemberFunction(
              Declared(Function("transfer", <<Param("n", U64)>>, Named("bool"),
                                Defined(Sequence(<<>>, Value(0)))),
                       "Package", FALSE, NoTypeParameters,
                       Span(LegacyLines, 9, 9)))>>)

AnalyzerTestsModule ==
    ModuleDefinition("market_tests",
        <<MemberFunction(
              Declared(Function("transfer", <<>>, TUnit, EmptyBody),
                       "Internal", FALSE, NoTypeParameters,
                       Span(MarketTestsLines, 3, 3))),
          MemberFunction(
              Declared(Function("test", <<>>, TUnit, EmptyBody),
                       "Internal", FALSE, NoTypeParameters,
                       Span(MarketTestsLines, 4, 4)))>>)

AnalyzerDepModule ==
    ModuleDefinition("market",
        <<MemberFunction(
              Declared(Function("transfer",
                                <<Param("v", Generic("vector", <<Named("T")>>))>>,
                                TUnit, Native),
                       "Friend", FALSE, <<TypeParameter("T", <<"Store">>)>>,
                       Span(DepMarketLines, 2, 2)))>>)

AnalyzerProject(probe) ==
    <<SourceDefs(
          <<File("sources/market.move", <<AnalyzerMarketModule(probe)>>),
            File("sources/legacy.move",
                 <<AddressDefinition(<<LegacyModule>>), AnalyzerUtilModule>>)>>,
          <<File("tests/market_tests.move", <<AnalyzerTestsModule>>)>>),
      SourceDefs(
          <<File("dep/sources/market.move", <<AnalyzerDepModule>>)>>,
          <<>>)>>

\* what a source file can be on disk when it is read again: as it was
\* parsed, unreadable, or cut short since it was parsed
Fresh(file_lines) == [readable |-> TRUE, content |-> FileText(file_lines)]
Unreadable == [readable |-> FALSE, content |-> ""]
CutShort(file_lines) == [readable |-> TRUE, content |-> file_lines[1] \o "\n"]

OnDisk(file_lines) == {Fresh(file_lines), Unreadable, CutShort(file_lines)}

FreshFiles ==
    [f \in {"sources/market.move", "sources/legacy.move",
            "tests/market_tests.move", "dep/sources/market.move"} |->
        CASE f = "sources/market.move" -> Fresh(MarketLines)
          [] f = "sources/legacy.move" -> Fresh(LegacyLines)
          [] f = "tests/market_tests.move" -> Fresh(MarketTestsLines)
          [] f = "dep/sources/market.move" -> Fresh(DepMarketLines)]

FileSystems ==
    {[f \in DOMAIN FreshFiles |->
         CASE f = "sources/market.move" -> a
           [] f = "sources/legacy.move" -> b
           [] f = "tests/market_tests.move" -> c
           [] f = "dep/sources/market.move" -> d] :
        a \in OnDisk(MarketLines), b \in OnDisk(LegacyLines),
        c \in OnDisk(MarketTestsLines), d \in OnDisk(DepMarketLines)}

RequestedNames ==
    {"", " ", "\t \n", "transfer", "Transfer", "TRANSFER", " transfer",
     "test", "helper", "ghost", "missing", "probe"}

\* declarations of `probe`: every parameter type under one set of modifiers,
\* and every set of modifiers and type parameters under one parameter type
TypeParameterLists ==
    {<<>>,
     <<TypeParameter("T", <<>>)>>,
     <<TypeParameter("T", <<"Copy">>)>>,
     <<TypeParameter("T", <<"Copy", "Drop">>)>>,
     <<TypeParameter("T", <<"Key", "Store">>), TypeParameter("U", <<>>)>>,
     <<TypeParameter("T", <<>>), TypeParameter("U", <<"Drop">>)>>}

Probes ==
    {Declared(Function("probe", <<Param("a", t)>>, U64, EmptyBody),
              "Friend", FALSE, <<TypeParameter("T", <<"Copy", "Drop">>)>>,
              Span(MarketLines, 11, 11)) : t \in Types(MaxTypeDepth)}
      \cup {Declared(Function("probe", <<Param("a", U64), Param("b", t)>>, t,
                              body),
                     visibility, entry, type_parameters,
                     Span(MarketLines, 11, 11)) :
                t \in {TUnit, Generic("vector", <<Named("u8")>>)},
                body \in {EmptyBody, Native},
                visibility \in {"Public", "Friend", "Package", "Internal"},
                entry \in BOOLEAN,
                type_parameters \in TypeParameterLists}

\* analyze_function is called on a loaded project: either with a requested
\* name against the files in any state, or for one declaration of `probe`
AnalyzerInit ==
    /\ \/ /\ requested_name \in RequestedNames
          /\ file_system \in FileSystems
          /\ project \in PackageOrders(AnalyzerProject(DefaultProbe))
       \/ /\ requested_name = "probe"
          /\ file_system = FreshFiles
          /\ \E probe \in Probes : project = AnalyzerProject(probe)
    /\ module_info = None
    /\ function = None
    /\ stack = <<>>
    /\ calls = <<>>
    /\ visited_calls = {}
    /\ function_defs = <<>>
    /\ def_index = 0
    /\ analysis_results = <<>>
    /\ partial_errors = <<>>
    /\ result = None
    /\ pc = "analyze_function"
    /\ call = None
    /\ outcome = None
    /\ host = None

\* the command-line tool after analyze_function: run_analysis passes an
\* error on to main, which exits with status 1, and prints a list
ExitMain ==
    /\ pc = "returned"
    /\ call = None
    /\ outcome' =
           IF result.kind = "Err" THEN [stdout |-> None, exit_code |-> 1]
           ELSE LET json_output == output_results(result.value)
                IN  IF json_output.kind = "Err"
                    THEN [stdout |-> None, exit_code |-> 1]
                    ELSE [stdout |-> json_output.value, exit_code |-> 0]
    /\ pc' = "exited"
    /\ UNCHANGED <<project, module_info, function, stack, calls, visited_calls,
                   analyzer, call, host>>

AnalyzerNext ==
    \/ AnalyzeFunction
    \/ AnalyzeSingleFunction
    \/ AnalyzeCalls
    \/ ExtractCall
    \/ ExtractDotCall
    \/ ResolveDotCall
    \/ ExtractSubExpressions
    \/ ReturnCalls
    \/ CompleteSingleFunction
    \/ ReturnAnalysis
    \/ ExitMain

AnalyzerSpec == AnalyzerInit /\ [][AnalyzerNext]_vars

(***************************************************************************)
(* Vocabulary of the properties of analyze_function                        *)
(***************************************************************************)

Returned == pc = "returned"
ReturnedList == Returned /\ result.kind = "Ok"

IsBlank(s) == \A i \in 1..Len(s) : SubSeq(s, i, i) \in Whitespace

Contains(s, part) ==
    \E i \in 1..(Len(s) - Len(part) + 1) :
        SubSeq(s, i, i + Len(part) - 1) = part

\* every module declared in the project's files, regular and test-only,
\* at top level or inside an address block, with its file
DeclaredModules ==
    UNION {UNION {UNION {IF d.kind = "Module"
                         THEN {[module_def |-> d, file_path |-> f.file_path]}
                         ELSE {[module_def |-> m, file_path |-> f.file_path] :
                                  m \in Range(d.modules)} :
                            d \in Range(f.definitions)} :
                     f \in Range(package.sources) \cup Range(package.tests)} :
              package \in Range(project)}

\* the declarations of functions called name: module name, file, function
DeclaredNamed(name) ==
    UNION {{<<m.module_def.name, m.file_path, f>> :
               f \in {g \in Range(FunctionsOf(m.module_def)) : g.name = name}} :
              m \in DeclaredModules}

\* the file of the definition is no longer on disk what it was when parsed
\* (unreadable, or without the lines of the declaration)
ExtractionFails(function_def) ==
    file_system[function_def.module_info.file_path]
        # FreshFiles[function_def.module_info.file_path]

(***************************************************************************)
(* C12  Name validation: when analyze_function has returned for an empty   *)
(* or whitespace-only name, it returned the validation error (an analysis  *)
(* error, not FunctionNotFound) without having searched; for any other     *)
(* name that no function of the project is declared with, it returned      *)
(* FunctionNotFound carrying that name.                                    *)
(***************************************************************************)
NameValidation ==
    Returned =>
        /\ IsBlank(requested_name) =>
               /\ result = Err(AnalysisError("Function name cannot be empty"))
               /\ function_defs = <<>>
        /\ (~IsBlank(requested_name) /\ DeclaredNamed(requested_name) = {}) =>
               result = Err(FunctionNotFound(requested_name))

\* analyze_function has returned for a name made of a tab, a space and a
\* line feed
NameValidationWitness ==
    /\ Returned
    /\ requested_name = "\t \n"
    /\ result.kind = "Err"
    /\ result.error.kind = "AnalysisError"

(***************************************************************************)
(* C13  Partial results: when analyze_function has returned a list, every  *)
(* definition whose extraction failed is represented at its own position   *)
(* by a degraded record -- signature `name(...)`, a source text that is a  *)
(* comment naming the error, no parameters, no calls -- and every other    *)
(* definition by its complete record (signature, source text, location     *)
(* and parameters of that definition).                                     *)
(***************************************************************************)
IsDegraded(record, function_def) ==
    /\ record.contract = function_def.module_info.name
    /\ record.function = function_def.function.name \o "(...)"
    /\ starts_with(record.source, "// Error analyzing function: ")
    /\ Contains(record.source,
                IF file_system[function_def.module_info.file_path].readable
                THEN "Invalid line numbers for function location"
                ELSE "IO error: ")
    /\ record.parameter = <<>>
    /\ record.calls = <<>>

IsComplete(record, function_def) ==
    /\ record.contract = function_def.module_info.name
    /\ record.function = extract_function_signature(function_def)
    /\ record.source = extract_source_code(function_def).value
    /\ record.location = create_location_info(function_def).value
    /\ record.parameter = extract_parameters(function_def)

TotalFailureIsAnError ==
    (Returned /\ function_defs # <<>>) =>
        IF \A i \in 1..Len(function_defs) : ExtractionFails(function_defs[i])
        THEN result.kind = "Err" /\ result.error.kind = "AnalysisError"
        ELSE result.kind = "Ok"

(***************************************************************************)
(* C15  Order: a list returned by analyze_function is non-empty and holds  *)
(* one record per definition found, in search order -- packages in the     *)
(* order the project yields them, within a package regular sources before  *)
(* test sources, within a file and a module declaration order -- the i-th  *)
(* record carrying the module name and the file of the i-th definition.    *)
(***************************************************************************)
\* the modules declaring the requested name, in search order
MatchingModules ==
    SelectSeq(AllModules,
              LAMBDA m : \E f \in Range(FunctionsOf(m.module_def)) :
                             f.name = requested_name)

SearchIsExact ==
    (Returned /\ ~IsBlank(requested_name)) =>
        IF DeclaredNamed(requested_name) = {}
        THEN result = Err(FunctionNotFound(requested_name))
        ELSE {<<function_defs[i].module_info.name,
                function_defs[i].module_info.file_path,
                function_defs[i].function>> : i \in 1..Len(function_defs)}
                 = DeclaredNamed(requested_name)

(***************************************************************************)
(* C17  Signature string: the signature of every completely analysed       *)
(* definition is, in this order, the visibility token, `entry ` if the     *)
(* entry marker is set, `native ` if the body is native, `fun `, the name, *)
(* the generic clause (present exactly when there are type parameters;     *)
(* constraints joined by ` + `, parameters by `, `), the parameter list    *)
(* `(name: type, ...)` and `: returnType`.                                 *)
(***************************************************************************)
VisibilityToken ==
    ("Public" :> "public ") @@ ("Friend" :> "public(friend) ")
        @@ ("Package" :> "public(package) ") @@ ("Internal" :> "")

AbilityWord ==
    ("Copy" :> "copy") @@ ("Drop" :> "drop") @@ ("Store" :> "store")
        @@ ("Key" :> "key")

GenericClause(type_parameters) ==
    IF type_parameters = <<>> THEN ""
    ELSE "<" \o join([i \in 1..Len(type_parameters) |->
                         LET tp == type_parameters[i]
                         IN  IF tp.constraints = <<>> THEN tp.name
                             ELSE tp.name \o ": "
                                    \o join([k \in 1..Len(tp.constraints) |->
                                                AbilityWord[tp.constraints[k]]],
                                            " + ")],
                     ", ") \o ">"

ParameterList(parameters) ==
    "(" \o join([i \in 1..Len(parameters) |->
                    parameters[i].name \o ": "
                        \o type_to_string(parameters[i].type)],
                ", ") \o ")"

SignatureTokens(f) ==
    <<VisibilityToken[f.visibility],
      IF f.entry THEN "entry " ELSE "",
      IF f.body.kind = "Native" THEN "native " ELSE "",
      "fun ",
      f.name,
      GenericClause(f.signature.type_parameters),
      ParameterList(f.signature.parameters),
      ": " \o type_to_string(f.signature.return_type)>>

SignatureTokenOrder ==
    ReturnedList =>
        \A i \in 1..Len(function_defs) :
            ~ExtractionFails(function_defs[i]) =>
                result.value[i].function
                    = join(SignatureTokens(function_defs[i].function), "")

\* Scenario D: a public(friend) function with one type parameter
\* constrained by two abilities
SignatureTokenOrderWitness ==
    /\ ReturnedList
    /\ function_defs[1].function.visibility = "Friend"
    /\ Len(function_defs[1].function.signature.type_parameters) = 1
    /\ result.value[1].function
           = "public(friend) fun probe<T: copy + drop>(a: u64): u64"

(***************************************************************************)
(* C18  Scenario A: analysing the private, non-generic function            *)
(* `fun test(x: u64, y: bool): u64 { x }` yields for it a record whose     *)
(* signature field is exactly `test(x: u64, y: bool): u64`, whose          *)
(* parameters are (x, u64) then (y, bool), and whose call list is empty.   *)
(***************************************************************************)
ScenarioARecord ==
    (ReturnedList /\ file_system = FreshFiles) =>
        \A i \in 1..Len(function_defs) :
            function_defs[i].function = ScenarioA =>
                /\ result.value[i].function = "test(x: u64, y: bool): u64"
                /\ result.value[i].parameter
                       = <<Parameter("x", "u64"), Parameter("y", "bool")>>
                /\ result.value[i].calls = <<>>

(***************************************************************************)
(* C19  Type arguments: a parameter whose declared type is a name applied  *)
(* to type arguments is reported with the type string                      *)
(* `name<arg1, arg2, ...>`, the built-in `vector` included; the arguments  *)
(* are never dropped.                                                      *)
(***************************************************************************)
\* the record and the declaration of `probe`, analysed with its file intact
ProbeAnalysed ==
    /\ ReturnedList
    /\ requested_name = "probe"
    /\ file_system = FreshFiles

DeclaredParameters == function_defs[1].function.signature.parameters

TypeArgumentsRendered ==
    ProbeAnalysed =>
        \A i \in 1..Len(DeclaredParameters) :
            LET type_ == DeclaredParameters[i].type
            IN  (/\ type_.kind = "Apply"
                 /\ type_.chain.kind = "Single"
                 /\ type_.chain.path_entry.tyargs.some) =>
                    result.value[1].parameter[i].type_
                        = type_.chain.path_entry.name \o "<"
                            \o join(types_to_strings(
                                        type_.chain.path_entry.tyargs.value),
                                    ", ") \o ">"

(***************************************************************************)
(* C20  Qualified type names: a parameter whose declared type is a         *)
(* qualified name (`module::name`, `address::module::name`) is reported    *)
(* with every segment of the path, joined by `::`, an anonymous numeric    *)
(* address as `0x` followed by its hexadecimal digits.                     *)
(***************************************************************************)
QualifiedTypeNamesRendered ==
    ProbeAnalysed =>
        \A i \in 1..Len(DeclaredParameters) :
            LET type_ == DeclaredParameters[i].type
            IN  (/\ type_.kind = "Apply"
                 /\ type_.chain.kind = "Path"
                 /\ type_.chain.root.kind \in {"Name", "AnonymousAddress"}
                 /\ \A k \in 1..Len(type_.chain.entries) :
                        ~type_.chain.entries[k].tyargs.some) =>
                    result.value[1].parameter[i].type_
                        = join(<<IF type_.chain.root.kind = "Name"
                                 THEN type_.chain.root.name
                                 ELSE "0x" \o hex_encode(type_.chain.root.name)>>
                                   \o [k \in 1..Len(type_.chain.entries) |->
                                          type_.chain.entries[k].name],
                               "::")

(***************************************************************************)
(* C21  Bracket balance: the signature and every parameter type string of  *)
(* an analysed function -- its types being unit, applied, reference,       *)
(* function and tuple types and the unresolved type -- contain as many `<` *)
(* as `>` characters and as many `(` as `)` characters.                    *)
(***************************************************************************)
Count(s, c) == Cardinality({i \in 1..Len(s) : SubSeq(s, i, i) = c})

Balanced(s) ==
    /\ Count(s, "<") = Count(s, ">")
    /\ Count(s, "(") = Count(s, ")")

BracketBalance ==
    ProbeAnalysed =>
        /\ Balanced(result.value[1].function)
        /\ \A i \in 1..Len(result.value[1].parameter) :
               Balanced(result.value[1].parameter[i].type_)

(***************************************************************************)
(* Single operations: one call of one operation on drawn arguments         *)
(***************************************************************************)

MaxLines == 3

\* the lines a source file is made of
LineKinds ==
    {"fun f() {}", "    /// doc", " * doc", "", "// note"}

RECURSIVE LineSequences(_)
LineSequences(n) ==
    IF n = 0 THEN {<<>>}
    ELSE LineSequences(n - 1)
           \cup {Append(file_lines, line) :
                    file_lines \in {ls \in LineSequences(n - 1) : Len(ls) = n - 1},
                    line \in LineKinds}

\* a file of these lines, its last line ended by a line feed or not (an
\* empty last line is one only when a line feed ends it)
SourceFile(file_lines, terminated) ==
    [file_lines |-> file_lines,
     content |-> join(file_lines, "\n") \o (IF terminated THEN "\n" ELSE "")]

SourceFiles ==
    {SourceFile(file_lines, TRUE) :
        file_lines \in LineSequences(MaxLines) \ {<<>>}}
      \cup {SourceFile(file_lines, FALSE) :
               file_lines \in {ls \in LineSequences(MaxLines) :
                                  ls # <<>> /\ ls[Len(ls)] # ""}}

\* byte offsets of a definition in a file: from the first byte of a line,
\* or from beyond the end of the file, to the end of a line or beyond the
\* end of the file
StartOffsets(file) ==
    {LineStart(file.file_lines, k) : k \in 1..Len(file.file_lines)}
        \cup {Len(file.content) + 1}

EndOffsets(file) ==
    {LineStart(file.file_lines, k) + Len(file.file_lines[k]) :
        k \in 1..Len(file.file_lines)}
        \cup {Len(file.content) + 2}

ProbeFile == "sources/probe.move"

ProbeAt(start, end) ==
    FunctionDef(Declared(Function("f", <<>>, TUnit, EmptyBody),
                         "Internal", FALSE, NoTypeParameters, Loc(start, end)),
                ModuleInfo("probe", ProbeFile), Loc(start, end))

ExtractionCalls ==
    UNION {{[op |-> "extract_source_code", file |-> file,
             start |-> start, end |-> end] :
               start \in StartOffsets(file),
               end \in EndOffsets(file)} :
              file \in SourceFiles}

\* line numbers over the range of u32
LineNumbers ==
    {U32(0, lo) : lo \in {0, 1, 2, 5, 10, 15, HalfValues - 1}}
        \cup {U32(1, 0), U32(HalfValues \div 2, 0),
              U32(HalfValues - 1, HalfValues - 2),
              U32(HalfValues - 1, HalfValues - 1)}

LineCountCalls ==
    {[op |-> "line_count", location |-> LocationInfo("test.move", s, e)] :
        s \in LineNumbers, e \in LineNumbers}

MaxTextLen == 2

\* texts with the characters JSON writes specially
TextChars == {"a", "\"", "\\", "\n"}

RECURSIVE Texts(_)
Texts(n) ==
    IF n = 0 THEN {""}
    ELSE Texts(n - 1) \cup {t \o c : t \in Texts(n - 1), c \in TextChars}

\* paths: `t.m`, `t/"\.m`, and one whose second byte is not valid UTF-8
Paths ==
    {path_from_str("t.m"), path_from_str("t/\"\\.m"),
     PathBuf(<<116, 255, 46, 109>>)}

\* FunctionAnalysis records around a text, with empty and non-empty lists
RecordsOf(t) ==
    {FunctionAnalysis(t, "f(): ()", "fun f() {\n\t" \o t \o "}",
                      LocationInfo(file, span[1], span[2]),
                      parameters, fn_calls) :
        file \in Paths,
        span \in {<<1, 3>>, <<0, 2147483647>>},
        parameters \in {<<>>, <<Parameter(t, "u64")>>,
                        <<Parameter("x", t), Parameter("", "")>>},
        fn_calls \in {<<>>} \cup {<<FunctionCall(f, "g(): " \o t, t)>> : f \in Paths}}

Records == UNION {RecordsOf(t) : t \in Texts(MaxTextLen)}

JsonCalls == {[op |-> "to_json", record |-> r] : r \in Records}

\* project directories: what Move.toml, sources, tests and scripts name
ProjectPath == "proj"
MoveTomls ==
    {Nothing, Directory(TRUE, <<>>), RegularFile(FALSE, ""),
     RegularFile(TRUE, ""), RegularFile(TRUE, " \n\t"),
     RegularFile(TRUE, "[package]\n")}
MoveFiles ==
    {DirEntry("a.move", RegularFile(TRUE, "module a::a {}")),
     DirEntry("a.move", RegularFile(TRUE, "\n")),
     DirEntry("a.move", RegularFile(FALSE, "")),
     DirEntry(".a.move", RegularFile(TRUE, "")),
     DirEntry("a.txt", RegularFile(TRUE, ""))}
OptionalDirectories ==
    {Nothing, RegularFile(TRUE, ""), Directory(FALSE, <<>>),
     Directory(TRUE, <<>>)}
SourcesDirectories ==
    OptionalDirectories
        \cup {Directory(TRUE, <<f>>) : f \in MoveFiles}
        \cup {Directory(TRUE, <<DirEntry("sub", Directory(TRUE, <<f>>))>>) :
                 f \in MoveFiles}

\* the entries of a project directory: only the names that name something
ProjectEntries(move_toml, sources, tests, scripts) ==
    LET all == <<DirEntry("Move.toml", move_toml), DirEntry("sources", sources),
                 DirEntry("tests", tests), DirEntry("scripts", scripts)>>
    IN  Flatten([i \in 1..4 |->
                    IF path_exists(all[i].named) THEN <<all[i]>> ELSE <<>>])

ProjectDirectories ==
    {Nothing, RegularFile(TRUE, "")}
        \cup {Directory(readable,
                        ProjectEntries(move_toml, sources, tests, scripts)) :
                 readable \in BOOLEAN, move_toml \in MoveTomls,
                 sources \in SourcesDirectories,
                 tests \in OptionalDirectories,
                 scripts \in OptionalDirectories}

ValidationCalls ==
    {[op |-> "validate_move_project", path |-> ProjectPath, named |-> d] :
        d \in ProjectDirectories}

UnitCalls ==
    {c \in ExtractionCalls : c.start <= c.end}
        \cup LineCountCalls
        \cup JsonCalls
        \cup ValidationCalls

\* the file system and the definitions an operation is called on
UnitInit ==
    /\ call \in UnitCalls
    /\ file_system =
           IF call.op = "extract_source_code"
           THEN (ProbeFile :> [readable |-> TRUE, content |-> call.file.content])
           ELSE <<>>
    /\ function_defs =
           IF call.op = "extract_source_code"
           THEN <<ProbeAt(call.start, call.end)>>
           ELSE <<>>
    /\ outcome = None
    /\ host = None
    /\ project = <<>>
    /\ module_info = None
    /\ function = None
    /\ stack = <<>>
    /\ calls = <<>>
    /\ visited_calls = {}
    /\ requested_name = ""
    /\ def_index = 0
    /\ analysis_results = <<>>
    /\ partial_errors = <<>>
    /\ result = None
    /\ pc = "call"

\* FunctionParser::extract_source_code and
\* FunctionAnalyzer::create_location_info on one definition
ExtractSourceCode ==
    /\ pc = "call"
    /\ call.op = "extract_source_code"
    /\ outcome' = [source |-> extract_source_code(function_defs[1]),
                   location |-> create_location_info(function_defs[1])]
    /\ pc' = "returned"
    /\ UNCHANGED <<project, module_info, function, stack, calls, visited_calls,
                   analyzer, call, host>>

\* LocationInfo::line_count, built with or without overflow checks
LineCount ==
    /\ pc = "call"
    /\ call.op = "line_count"
    /\ \E overflow_checks \in BOOLEAN :
          outcome' = line_count(call.location, overflow_checks)
    /\ pc' = "returned"
    /\ UNCHANGED <<project, module_info, function, stack, calls, visited_calls,
                   analyzer, call, host>>

\* FunctionAnalysis::to_json, then FunctionAnalysis::from_json of its result
ToJsonFromJson ==
    /\ pc = "call"
    /\ call.op = "to_json"
    /\ LET json == to_json(call.record)
       IN  outcome' = [json |-> json,
                       record |-> IF json.kind = "Ok" THEN from_json(json.value)
                                  ELSE None]
    /\ pc' = "returned"
    /\ UNCHANGED <<project, module_info, function, stack, calls, visited_calls,
                   analyzer, call, host>>

\* ProjectLoader::validate_move_project on a project path
ValidateMoveProject ==
    /\ pc = "call"
    /\ call.op = "validate_move_project"
    /\ outcome' = validate_move_project(call.named, call.path)
    /\ pc' = "returned"
    /\ UNCHANGED <<project, module_info, function, stack, calls, visited_calls,
                   analyzer, call, host>>

UnitNext ==
    \/ ExtractSourceCode
    \/ LineCount
    \/ ToJsonFromJson
    \/ ValidateMoveProject

UnitSpec == UnitInit /\ [][UnitNext]_vars

(***************************************************************************)
(* Two extractions over one project: a host runs analyze_calls for two     *)
(* definitions, first one after the other, then again with their steps     *)
(* interleaved.  The extraction that is running has its state in the       *)
(* variables; the state of the other is kept by the host.                  *)
(***************************************************************************)

\* seeded fault: one seen-set for all extractions
LocalsWithSharedSeenSet == {"function", "module_info", "stack", "calls", "pc"}

\* what belongs to one call of analyze_calls: its arguments, its position,
\* and the accumulator and the seen-set it creates
Locals == {"function", "module_info", "stack", "calls", "visited_calls", "pc"}

JobBodies ==
    {Native,
     Defined(Sequence(<<Seq_(Direct("helper", <<>>)),
                        Seq_(Direct("helper", <<>>))>>, NoExp)),
     Defined(Sequence(<<Seq_(Direct("helper2", <<>>))>>,
                      Direct("helper", <<>>))),
     Statement(Qualified("util", "compute", <<Direct("helper", <<>>)>>)),
     Statement(IfElse(Direct("helper", <<>>), Direct("helper2", <<>>),
                      Qualified("util", "compute", <<>>))),
     Statement(DotCall(Direct("helper", <<>>), "fill", <<>>))}

Job(name, home, body) ==
    [function |-> Function(name, <<Param("n", U64)>>, TUnit, body),
     module_info |-> home]

\* two definitions with different names, or with one name in two modules
JobPairs ==
    LET market == ModuleInfo("market", "sources/market.move")
    IN  {<<Job("main", market, first_body), Job(name, home, second_body)>> :
            first_body \in JobBodies, second_body \in JobBodies,
            name \in {"main", "probe"},
            home \in {market,
                      ModuleInfo("market_tests", "tests/market_tests.move"),
                      ModuleInfo("market", "dep/sources/market.move")}}
          \ {<<Job("main", market, first_body),
               Job("main", market, second_body)>> :
                first_body \in JobBodies, second_body \in JobBodies}

\* the state of an extraction that has not started
NotStarted(job) ==
    [function |-> job.function, module_info |-> job.module_info,
     stack |-> <<>>, calls |-> <<>>, visited_calls |-> {},
     pc |-> "analyze_calls"]

ParallelInit ==
    /\ \E jobs \in JobPairs :
          /\ project \in PackageOrders(ProjectOf(jobs))
          /\ host = [phase |-> "alone", active |-> 1, jobs |-> jobs,
                     alone |-> <<<<>>, <<>>>>, together |-> <<<<>>, <<>>>>,
                     collected |-> {},
                     suspended |-> None, overlapped |-> FALSE]
          /\ function = jobs[1].function
          /\ module_info = jobs[1].module_info
    /\ stack = <<>>
    /\ calls = <<>>
    /\ visited_calls = {}
    /\ pc = "analyze_calls"
    /\ requested_name = function.name
    /\ file_system = <<>>
    /\ function_defs = <<>>
    /\ def_index = 0
    /\ analysis_results = <<>>
    /\ partial_errors = <<>>
    /\ result = None
    /\ call = None
    /\ outcome = None

\* the first extraction has returned: the host keeps its call list and
\* calls analyze_calls for the second definition
RunSecondAlone ==
    /\ host # None
    /\ host.phase = "alone"
    /\ host.active = 1
    /\ pc = "done"
    /\ host' = [host EXCEPT !.alone[1] = calls, !.active = 2]
    /\ function' = host.jobs[2].function
    /\ module_info' = host.jobs[2].module_info
    /\ pc' = "analyze_calls"
    /\ UNCHANGED <<project, stack, calls, visited_calls, analyzer, call,
                   outcome>>

\* the second extraction has returned: the host keeps its call list and
\* starts both extractions again, to run together
RunTogether ==
    /\ host # None
    /\ host.phase = "alone"
    /\ host.active = 2
    /\ pc = "done"
    /\ host' = [host EXCEPT !.alone[2] = calls, !.active = 1,
                            !.phase = "together",
                            !.suspended = NotStarted(host.jobs[2])]
    /\ function' = host.jobs[1].function
    /\ module_info' = host.jobs[1].module_info
    /\ pc' = "analyze_calls"
    /\ UNCHANGED <<project, stack, calls, visited_calls, analyzer, call,
                   outcome>>

\* an extraction running together with the other has returned: the host
\* keeps its call list
CollectCalls ==
    /\ host # None
    /\ host.phase = "together"
    /\ pc = "done"
    /\ host' = [host EXCEPT !.together[host.active] = calls,
                            !.collected = @ \cup {host.active}]
    /\ pc' = "collected"
    /\ UNCHANGED <<project, module_info, function, stack, calls,
                   visited_calls, analyzer, call, outcome>>

\* the scheduler lets the other extraction take its next steps: what is
\* local to the running call is put aside and the other's is brought back;
\* the host notes a turn taken while both extractions are under way
Yield ==
    /\ host # None
    /\ host.phase = "together"
    /\ host.suspended.pc # "collected"
    /\ LET running == [function |-> function, module_info |-> module_info,
                       stack |-> stack, calls |-> calls,
                       visited_calls |-> visited_calls, pc |-> pc]
           resumed == [f \in DOMAIN running |->
                          IF f \in Locals THEN host.suspended[f]
                          ELSE running[f]]
       IN  /\ host' = [host EXCEPT !.suspended = running,
                                   !.active = 3 - host.active,
                                   !.overlapped =
                                       \/ host.overlapped
                                       \/ /\ pc = "extract"
                                          /\ host.suspended.pc = "extract"]
           /\ function' = resumed.function
           /\ module_info' = resumed.module_info
           /\ stack' = resumed.stack
           /\ calls' = resumed.calls
           /\ visited_calls' = resumed.visited_calls
           /\ pc' = resumed.pc
    /\ UNCHANGED <<project, analyzer, call, outcome>>

ParallelNext ==
    \/ AnalyzeCalls
    \/ ExtractCall
    \/ ExtractDotCall
    \/ ResolveDotCall
    \/ ExtractSubExpressions
    \/ ReturnCalls
    \/ RunSecondAlone
    \/ RunTogether
    \/ CollectCalls
    \/ Yield

ParallelSpec == ParallelInit /\ [][ParallelNext]_vars

(***************************************************************************)
(* Vocabulary of the properties of source and location extraction          *)
(***************************************************************************)

Extracted == pc = "returned" /\ call.op = "extract_source_code"

\* the 1-indexed line of a byte offset: one more than the number of line
\* feeds before it
LineOf(content, offset) ==
    1 + Cardinality({i \in 1..Len(content) :
                        i <= offset /\ SubSeq(content, i, i) = "\n"})

OffsetsWithinFile == call.end <= Len(call.file.content)

\* a line that is blank, or whose first characters after its indentation
\* are a documentation-comment marker
IsAttachedLine(line) ==
    \/ \A i \in 1..Len(line) : SubSeq(line, i, i) \in Whitespace
    \/ \E i \in 1..Len(line) :
          /\ \A j \in 1..(i - 1) : SubSeq(line, j, j) \in Whitespace
          /\ \E marker \in {"///", "/**", "*"} :
                SubSeq(line, i, i + Len(marker) - 1) = marker

(***************************************************************************)
(* C22  Source text: for a definition whose byte offsets lie within its    *)
(* file, the emitted source text is the file lines S' to E joined by line  *)
(* feeds, S and E being the lines of the start and end offsets and S' the  *)
(* smallest line number such that every line from S' to S - 1 is blank or  *)
(* begins (after its indentation) with a documentation-comment marker;     *)
(* the backward scan stops at the first other line and at line 1.          *)
(***************************************************************************)
SourceWithDocs ==
    (Extracted /\ OffsetsWithinFile) =>
        LET file_lines == call.file.file_lines
            S == LineOf(call.file.content, call.start)
            E == LineOf(call.file.content, call.end)
            first == CHOOSE k \in 1..S :
                        /\ \A j \in k..(S - 1) : IsAttachedLine(file_lines[j])
                        /\ k = 1 \/ ~IsAttachedLine(file_lines[k - 1])
        IN  outcome.source = Ok(join(SubSeq(file_lines, first, E), "\n"))

\* a definition on line 3 below a documentation comment, with an ordinary
\* comment on line 1 that stops the scan
SourceWithDocsWitness ==
    /\ Extracted
    /\ call.file.file_lines = <<"// note", "    /// doc", "fun f() {}">>
    /\ call.start = LineStart(call.file.file_lines, 3)
    /\ outcome.source = Ok("    /// doc\nfun f() {}")

(***************************************************************************)
(* C23  Offsets beyond the file: when the start or the end byte offset of  *)
(* a definition exceeds the length of its file, the extraction of the      *)
(* source text and of the location both fail with an analysis error,       *)
(* whether or not a line feed ends the file; the offset is never taken for *)
(* the last line.                                                          *)
(***************************************************************************)
OffsetBeyondFileFails ==
    (Extracted /\ ~OffsetsWithinFile) =>
        /\ outcome.source.kind = "Err"
        /\ outcome.source.error.kind = "AnalysisError"
        /\ outcome.location.kind = "Err"
        /\ outcome.location.error.kind = "AnalysisError"

(***************************************************************************)
(* C27  Line count: for all 32-bit unsigned start_line and end_line,       *)
(* line_count returns end_line - start_line + 1 when end_line >=           *)
(* start_line and 0 otherwise; the computation never leaves 32 bits.       *)
(***************************************************************************)
\* the exact sum of two 32-bit values, as three 16-bit digits
ExactSum(a, b) ==
    LET lo == a.lo + b.lo
        hi == a.hi + b.hi + lo \div HalfValues
    IN  <<hi \div HalfValues, hi % HalfValues, lo % HalfValues>>

LineCountExact ==
    (pc = "returned" /\ call.op = "line_count") =>
        LET start_line == call.location.start_line
            end_line == call.location.end_line
        IN  /\ DOMAIN outcome = {"hi", "lo"}
            /\ IF u32_ge(end_line, start_line)
               THEN ExactSum(outcome, start_line) = ExactSum(end_line, U32(0, 1))
               ELSE outcome = U32(0, 0)

(***************************************************************************)
(* C25  Round trip: for every FunctionAnalysis record, deserializing the   *)
(* result of serializing it yields a record equal to the original in       *)
(* every field.                                                            *)
(***************************************************************************)
Serialized == pc = "returned" /\ call.op = "to_json"

RecordPaths(record) ==
    {record.location.file}
        \cup {record.calls[i].file : i \in 1..Len(record.calls)}

IsUnicodePath(path) == \A i \in 1..Len(path.bytes) : path.bytes[i] < 128

SerializedFields ==
    (Serialized /\ outcome.json.kind = "Ok") =>
        /\ Keys(outcome.json.value)
              = <<"contract", "function", "source", "location", "parameters",
                  "calls">>
        /\ \A i \in 1..Len(call.record.parameter) :
              LET entries == Field(outcome.json.value,
                                   Keys(outcome.json.value)[5]).value.items
              IN  Keys(entries[i]) = <<"name", "type">>

(***************************************************************************)
(* C28  No match: when the project is loaded and no function has the       *)
(* requested name, the command-line tool prints an empty JSON array and    *)
(* exits successfully.                                                     *)
(***************************************************************************)
NoMatchPrintsEmptyArray ==
    (/\ pc = "exited"
     /\ ~IsBlank(requested_name)
     /\ DeclaredNamed(requested_name) = {}) =>
        /\ outcome.stdout = JsonArray(<<>>)
        /\ outcome.exit_code = 0

(***************************************************************************)
(* C30  Location and source agree: in every record that is not degraded,   *)
(* location.start_line is the line of the file where the emitted source    *)
(* text begins and location.end_line the line where it ends, so the source *)
(* text has end_line - start_line + 1 lines, also when documentation       *)
(* comments or blank lines precede the definition.                         *)
(***************************************************************************)
LocationBoundsSource ==
    ReturnedList =>
        \A i \in 1..Len(result.value) :
            LET record == result.value[i]
                location == record.location
                file_lines == lines(file_system[location.file].content)
            IN  ~starts_with(record.source, "// Error analyzing function: ") =>
                    /\ 1 + Count(record.source, "\n")
                           = location.end_line - location.start_line + 1
                    /\ record.source
                           = join(SubSeq(file_lines, location.start_line,
                                         location.end_line), "\n")

(***************************************************************************)
(* Vocabulary of the properties of project validation                      *)
(***************************************************************************)

Validated == pc = "returned" /\ call.op = "validate_move_project"

\* what a name names in the project directory
InProject(name) ==
    IF call.named.kind = "dir" /\ \E i \in 1..Len(call.named.entries) :
                                     call.named.entries[i].name = name
    THEN LET i == CHOOSE i \in 1..Len(call.named.entries) :
                      call.named.entries[i].name = name
         IN  call.named.entries[i].named
    ELSE Nothing

\* the validation failed with an analysis error whose message has the part
FailsWith(part) ==
    /\ outcome.kind = "Err"
    /\ outcome.error.kind = "AnalysisError"
    /\ Contains(outcome.error.message, part)

ReadableDirectory == call.named.kind = "dir" /\ call.named.readable

\* Move.toml is a readable file with more than white space
MoveTomlPasses ==
    /\ ReadableDirectory
    /\ InProject("Move.toml").kind = "file"
    /\ InProject("Move.toml").readable
    /\ ~IsBlank(InProject("Move.toml").content)

\* an optional directory is absent or a readable directory
OptionalDirectoryPasses(name) ==
    \/ InProject(name).kind = "nothing"
    \/ InProject(name).kind = "dir" /\ InProject(name).readable

RECURSIVE MoveFilesBelow(_)
\* the Move files (not hidden) below a directory
MoveFilesBelow(dir) ==
    UNION {LET entry == dir.entries[i]
           IN  IF entry.named.kind = "dir" /\ entry.named.readable
               THEN MoveFilesBelow(entry.named)
               ELSE IF /\ entry.named.kind = "file"
                       /\ ends_with(entry.name, ".move")
                       /\ SubSeq(entry.name, 1, 1) # "."
               THEN {entry.named}
               ELSE {} : i \in 1..Len(dir.entries)}

SourcesPass ==
    /\ OptionalDirectoryPasses("sources")
    /\ InProject("sources").kind = "dir" =>
           \A f \in MoveFilesBelow(InProject("sources")) :
               f.readable /\ ~IsBlank(f.content)

====
